---- MODULE Spec2Model ----
(***************************************************************************)
(* Safety-gated text pipelines of the telemedicine server                  *)
(* (apps/server/src/routes/mvp.ts): the symptom-triage pipeline and the    *)
(* prescription simplifier, with the two HTTP handlers that run them, the  *)
(* appointment status handler, and of the web client                       *)
(* normalizeSymptomTriage and the consultation call room.                  *)
(*                                                                         *)
(* A JavaScript string is a sequence of UTF-16 code units, modelled as a   *)
(* sequence of naturals (97 is "a"); every string literal of the source is *)
(* written out that way, with the text in the comment above it.            *)
(***************************************************************************)
EXTENDS Integers, Sequences, FiniteSets, TLC

VARIABLES
    env,         \* process configuration: [GEMINI_API_KEY : BOOLEAN]
    route,       \* what is running: "none", "triage", "simplify", "normalize", "extract"
    pc,          \* position of the handler (its await points)
    req,         \* the parsed request body (payload.data), or the value to normalize
    fallback,    \* simplifier: the deterministic summary computed first
    candidate,   \* simplifier: the coerced first model summary awaiting the retry
    modelCalls,  \* number of outbound fetch calls issued to the external model
    replies,     \* what the external model did on each call, oldest first
    ret,         \* what runSymptomTriage / runPrescriptionSimplifier returned or threw
    audit,       \* rows written by createAuditLog, oldest first
    response,    \* the HTTP response sent to the caller
    trace,       \* pipeline stages executed so far, in order
    mode,        \* call room: the React state mode, "video" or "audio"
    modeRef,     \* call room: modeRef.current
    consecutiveSlowChecksRef,  \* call room: consecutiveSlowChecksRef.current
    probeInFlightRef,          \* call room: probeInFlightRef.current
    latency,     \* call room: the React state latency, null or the last round trip
    cancelled,   \* call room: the effect was cleaned up (the page is unmounted)
    events,      \* call room: the probes settled and the buttons pressed, oldest first
    appointment, \* the appointment table: the status of each appointment
    patch        \* the status-update requests in flight: position and local values

\* the state of the server pipelines
serverVars == <<env, route, pc, req, fallback, candidate, modelCalls, replies, ret, audit,
               response, trace>>

\* the state of the consultation call room page
roomVars == <<mode, modeRef, consecutiveSlowChecksRef, probeInFlightRef, latency, cancelled,
             events>>

\* the appointment table and the requests that update it
bookingVars == <<appointment, patch>>

vars == <<serverVars, roomVars, bookingVars>>

----------------------------------------------------------------------------
(* Strings and the regular-expression character classes                    *)

\* JavaScript \s (and the characters String.prototype.trim removes)
IsSpace(c) ==
    \/ c \in {9, 10, 11, 12, 13, 32, 160, 5760, 8232, 8233, 8239, 8287, 12288, 65279}
    \/ (c >= 8192 /\ c <= 8202)

\* \d
IsDigit(c) == c >= 48 /\ c <= 57

\* [A-Z]
IsUpper(c) == c >= 65 /\ c <= 90

\* [A-Za-z]
IsLatin(c) == (c >= 65 /\ c <= 90) \/ (c >= 97 /\ c <= 122)

\* \w
IsWordChar(c) == IsLatin(c) \/ IsDigit(c) \/ c = 95

\* F(v), with v evaluated once
With(v, F(_)) == CHOOSE r \in {F(x) : x \in {v}} : TRUE

\* smallest element of a non-empty set of integers
MinOf(S) == CHOOSE x \in S : \A y \in S : x <= y

\* largest element of a non-empty set of integers
MaxOf(S) == CHOOSE x \in S : \A y \in S : x >= y

\* one code unit of String.prototype.toLowerCase (the scripts used here have no case)
LowerChar(c) == IF IsUpper(c) THEN c + 32 ELSE c

\* String.prototype.toLowerCase
toLowerCase(s) == With(s, LAMBDA t : [i \in 1..Len(t) |-> LowerChar(t[i])])

\* the literal lit occurs in s at index i
MatchLit(s, i, lit) ==
    /\ i >= 1
    /\ i + Len(lit) - 1 <= Len(s)
    /\ \A k \in 1..Len(lit) : s[i + k - 1] = lit[k]

\* the literal lit occurs in s at index i, ignoring case (the /i flag); lit is lower case
MatchLitI(s, i, lit) ==
    /\ i >= 1
    /\ i + Len(lit) - 1 <= Len(s)
    /\ \A k \in 1..Len(lit) : LowerChar(s[i + k - 1]) = lit[k]

\* String.prototype.includes
Includes(s, lit) ==
    \E t \in {s}, l \in {lit} : \E i \in 1..(Len(t) - Len(l) + 1) : MatchLit(t, i, l)

\* first index >= i of s that holds no white space (Len(s)+1 when there is none): \s*
RECURSIVE SkipSpaces(_, _)
SkipSpaces(s, i) == IF i <= Len(s) /\ IsSpace(s[i]) THEN SkipSpaces(s, i + 1) ELSE i

\* last index <= i of s that holds no white space (0 when there is none)
RECURSIVE SkipSpacesBack(_, _)
SkipSpacesBack(s, i) == IF i >= 1 /\ IsSpace(s[i]) THEN SkipSpacesBack(s, i - 1) ELSE i

\* first index >= i of s that holds no digit: \d*
RECURSIVE SkipDigits(_, _)
SkipDigits(s, i) == IF i <= Len(s) /\ IsDigit(s[i]) THEN SkipDigits(s, i + 1) ELSE i

\* value of a run of decimal digits
RECURSIVE DigitsValue(_)
DigitsValue(d) ==
    IF Len(d) = 0 THEN 0 ELSE 10 * DigitsValue(SubSeq(d, 1, Len(d) - 1)) + (d[Len(d)] - 48)

\* value.replace(/\s+/g, " "): the first character of a run of white space becomes a
\* space and the rest of the run is dropped
ReplaceSpaceRuns(s) ==
    With(s, LAMBDA t :
        SelectSeq([i \in 1..Len(t) |->
                      IF ~IsSpace(t[i]) THEN t[i]
                      ELSE IF i > 1 /\ IsSpace(t[i - 1]) THEN 0 - 1 ELSE 32],
                  LAMBDA c : c >= 0))

\* String.prototype.trim
trim(s) == With(s, LAMBDA t : SubSeq(t, SkipSpaces(t, 1), SkipSpacesBack(t, Len(t))))

\* sanitizeTriageText without the white-space collapse (a mutation of sanitizeTriageText)
sanitizeTriageText_TrimOnly(value) == trim(value)

\* sanitizeTriageText: collapse white space, then trim
sanitizeTriageText(value) == trim(ReplaceSpaceRuns(value))

\* Array.prototype.join over strings
RECURSIVE Join(_, _)
Join(parts, sep) ==
    IF Len(parts) = 0 THEN <<>>
    ELSE IF Len(parts) = 1 THEN parts[1]
    ELSE parts[1] \o sep \o Join(Tail(parts), sep)

\* the value of an absent optional field
Undefined == [undefined |-> TRUE]

\* a present string field
Str(s) == [undefined |-> FALSE, s |-> s]

\* a present number field of value n + tenths / 10
Num(n, tenths) == [undefined |-> FALSE, n |-> n, tenths |-> tenths]

\* what c.req.json().catch(() => null) gives for a body that is not JSON
NotJson == [json |-> FALSE]

----------------------------------------------------------------------------
(* Triage: constants of the rule engine                                    *)

\* emergencyKeywords  (mvp.ts:323-341)
emergencyKeywords == <<
    <<99, 104, 101, 115, 116, 32, 112, 97, 105, 110>>,   \* "chest pain"
    <<99, 104, 101, 115, 116, 32, 112, 114, 101, 115, 115, 117, 114, 101>>,   \* "chest pressure"
    <<100, 105, 102, 102, 105, 99, 117, 108, 116, 121, 32, 98, 114, 101, 97, 116, 104, 105, 110, 103>>,   \* "difficulty breathing"
    <<99, 97, 110, 39, 116, 32, 98, 114, 101, 97, 116, 104, 101>>,   \* "can't breathe"
    <<99, 97, 110, 110, 111, 116, 32, 98, 114, 101, 97, 116, 104, 101>>,   \* "cannot breathe"
    <<110, 111, 116, 32, 98, 114, 101, 97, 116, 104, 105, 110, 103>>,   \* "not breathing"
    <<117, 110, 99, 111, 110, 115, 99, 105, 111, 117, 115>>,   \* "unconscious"
    <<108, 111, 115, 115, 32, 111, 102, 32, 99, 111, 110, 115, 99, 105, 111, 117, 115, 110, 101, 115, 115>>,   \* "loss of consciousness"
    <<115, 101, 118, 101, 114, 101, 32, 98, 108, 101, 101, 100, 105, 110, 103>>,   \* "severe bleeding"
    <<115, 116, 114, 111, 107, 101>>,   \* "stroke"
    <<104, 101, 97, 114, 116, 32, 97, 116, 116, 97, 99, 107>>,   \* "heart attack"
    <<115, 101, 105, 122, 117, 114, 101>>,   \* "seizure"
    <<112, 97, 114, 97, 108, 121, 115, 105, 115>>,   \* "paralysis"
    <<115, 101, 118, 101, 114, 101, 32, 104, 101, 97, 100, 32, 105, 110, 106, 117, 114, 121>>,   \* "severe head injury"
    <<115, 117, 105, 99, 105, 100, 97, 108>>,   \* "suicidal"
    <<111, 118, 101, 114, 100, 111, 115, 101>>,   \* "overdose"
    <<97, 110, 97, 112, 104, 121, 108, 97, 120, 105, 115>>    \* "anaphylaxis"
    >>

\* dosageRequestKeywords  (mvp.ts:343-349)
dosageRequestKeywords == <<
    <<100, 111, 115, 97, 103, 101>>,   \* "dosage"
    <<100, 111, 115, 101>>,   \* "dose"
    <<104, 111, 119, 32, 109, 97, 110, 121, 32, 109, 103>>,   \* "how many mg"
    <<104, 111, 119, 32, 109, 117, 99, 104, 32, 109, 101, 100, 105, 99, 105, 110, 101>>,   \* "how much medicine"
    <<112, 114, 101, 115, 99, 114, 105, 98, 101>>    \* "prescribe"
    >>

\* diagnosisRequestKeywords  (mvp.ts:351-356)
diagnosisRequestKeywords == <<
    <<100, 105, 97, 103, 110, 111, 115, 101>>,   \* "diagnose"
    <<100, 105, 97, 103, 110, 111, 115, 105, 115>>,   \* "diagnosis"
    <<119, 104, 97, 116, 32, 100, 105, 115, 101, 97, 115, 101, 32, 100, 111, 32, 105, 32, 104, 97, 118, 101>>,   \* "what disease do i have"
    <<119, 104, 97, 116, 32, 105, 108, 108, 110, 101, 115, 115, 32, 100, 111, 32, 105, 32, 104, 97, 118, 101>>    \* "what illness do i have"
    >>

\* safetyBypassKeywords  (mvp.ts:358-363)
safetyBypassKeywords == <<
    <<105, 103, 110, 111, 114, 101, 32, 115, 97, 102, 101, 116, 121>>,   \* "ignore safety"
    <<105, 103, 110, 111, 114, 101, 32, 121, 111, 117, 114, 32, 114, 117, 108, 101, 115>>,   \* "ignore your rules"
    <<115, 107, 105, 112, 32, 115, 97, 102, 101, 116, 121>>,   \* "skip safety"
    <<98, 121, 112, 97, 115, 115, 32, 115, 97, 102, 101, 116, 121>>    \* "bypass safety"
    >>

\* "112"
INDIA_EMERGENCY_NUMBER == <<49, 49, 50>>

\* "This triage result is not a diagnosis or treatment plan. Please consult a licensed medical professional immediately."
DEFAULT_TRIAGE_DISCLAIMER == <<84, 104, 105, 115, 32, 116, 114, 105, 97, 103, 101, 32, 114,
    101, 115, 117, 108, 116, 32, 105, 115, 32, 110, 111, 116, 32, 97, 32, 100, 105, 97, 103,
    110, 111, 115, 105, 115, 32, 111, 114, 32, 116, 114, 101, 97, 116, 109, 101, 110, 116, 32,
    112, 108, 97, 110, 46, 32, 80, 108, 101, 97, 115, 101, 32, 99, 111, 110, 115, 117, 108,
    116, 32, 97, 32, 108, 105, 99, 101, 110, 115, 101, 100, 32, 109, 101, 100, 105, 99, 97,
    108, 32, 112, 114, 111, 102, 101, 115, 115, 105, 111, 110, 97, 108, 32, 105, 109, 109, 101,
    100, 105, 97, 116, 101, 108, 121, 46>>

\* "Potential emergency warning signs were detected in the reported symptoms."
RedSummary == <<80, 111, 116, 101, 110, 116, 105, 97, 108, 32, 101, 109, 101, 114, 103, 101,
    110, 99, 121, 32, 119, 97, 114, 110, 105, 110, 103, 32, 115, 105, 103, 110, 115, 32, 119,
    101, 114, 101, 32, 100, 101, 116, 101, 99, 116, 101, 100, 32, 105, 110, 32, 116, 104, 101,
    32, 114, 101, 112, 111, 114, 116, 101, 100, 32, 115, 121, 109, 112, 116, 111, 109, 115, 46>>

\* "The message includes emergency indicators ("
RedExplanationPrefix == <<84, 104, 101, 32, 109, 101, 115, 115, 97, 103, 101, 32, 105, 110, 99,
    108, 117, 100, 101, 115, 32, 101, 109, 101, 114, 103, 101, 110, 99, 121, 32, 105, 110, 100,
    105, 99, 97, 116, 111, 114, 115, 32, 40>>

\* ") that can be life-threatening."
RedExplanationSuffix == <<41, 32, 116, 104, 97, 116, 32, 99, 97, 110, 32, 98, 101, 32, 108,
    105, 102, 101, 45, 116, 104, 114, 101, 97, 116, 101, 110, 105, 110, 103, 46>>

\* "Call emergency services now ("
RedActionPrefix == <<67, 97, 108, 108, 32, 101, 109, 101, 114, 103, 101, 110, 99, 121, 32, 115,
    101, 114, 118, 105, 99, 101, 115, 32, 110, 111, 119, 32, 40>>

\* ") or go to the nearest emergency department immediately."
RedActionSuffix == <<41, 32, 111, 114, 32, 103, 111, 32, 116, 111, 32, 116, 104, 101, 32, 110,
    101, 97, 114, 101, 115, 116, 32, 101, 109, 101, 114, 103, 101, 110, 99, 121, 32, 100, 101,
    112, 97, 114, 116, 109, 101, 110, 116, 32, 105, 109, 109, 101, 100, 105, 97, 116, 101, 108,
    121, 46>>

\* " Do not delay emergency care."
RedDisclaimerSuffix == <<32, 68, 111, 32, 110, 111, 116, 32, 100, 101, 108, 97, 121, 32, 101,
    109, 101, 114, 103, 101, 110, 99, 121, 32, 99, 97, 114, 101, 46>>

\* "oxygen level below 90%"
OxygenReason == <<111, 120, 121, 103, 101, 110, 32, 108, 101, 118, 101, 108, 32, 98, 101, 108,
    111, 119, 32, 57, 48, 37>>

\* "The request asks for diagnosis, medication dosage, or unsafe guidance."
RefusalSummary == <<84, 104, 101, 32, 114, 101, 113, 117, 101, 115, 116, 32, 97, 115, 107, 115,
    32, 102, 111, 114, 32, 100, 105, 97, 103, 110, 111, 115, 105, 115, 44, 32, 109, 101, 100,
    105, 99, 97, 116, 105, 111, 110, 32, 100, 111, 115, 97, 103, 101, 44, 32, 111, 114, 32,
    117, 110, 115, 97, 102, 101, 32, 103, 117, 105, 100, 97, 110, 99, 101, 46>>

\* "For safety, this assistant cannot provide diagnosis, dosing, or advice that bypasses medical safeguards."
RefusalExplanation == <<70, 111, 114, 32, 115, 97, 102, 101, 116, 121, 44, 32, 116, 104, 105,
    115, 32, 97, 115, 115, 105, 115, 116, 97, 110, 116, 32, 99, 97, 110, 110, 111, 116, 32,
    112, 114, 111, 118, 105, 100, 101, 32, 100, 105, 97, 103, 110, 111, 115, 105, 115, 44, 32,
    100, 111, 115, 105, 110, 103, 44, 32, 111, 114, 32, 97, 100, 118, 105, 99, 101, 32, 116,
    104, 97, 116, 32, 98, 121, 112, 97, 115, 115, 101, 115, 32, 109, 101, 100, 105, 99, 97,
    108, 32, 115, 97, 102, 101, 103, 117, 97, 114, 100, 115, 46>>

\* "Consult a licensed doctor within 24 hours for personalized guidance. If severe symptoms are present, call emergency services immediately."
RefusalAction == <<67, 111, 110, 115, 117, 108, 116, 32, 97, 32, 108, 105, 99, 101, 110, 115,
    101, 100, 32, 100, 111, 99, 116, 111, 114, 32, 119, 105, 116, 104, 105, 110, 32, 50, 52,
    32, 104, 111, 117, 114, 115, 32, 102, 111, 114, 32, 112, 101, 114, 115, 111, 110, 97, 108,
    105, 122, 101, 100, 32, 103, 117, 105, 100, 97, 110, 99, 101, 46, 32, 73, 102, 32, 115,
    101, 118, 101, 114, 101, 32, 115, 121, 109, 112, 116, 111, 109, 115, 32, 97, 114, 101, 32,
    112, 114, 101, 115, 101, 110, 116, 44, 32, 99, 97, 108, 108, 32, 101, 109, 101, 114, 103,
    101, 110, 99, 121, 32, 115, 101, 114, 118, 105, 99, 101, 115, 32, 105, 109, 109, 101, 100,
    105, 97, 116, 101, 108, 121, 46>>

\* "within 24 hours"
Within24Hours == <<119, 105, 116, 104, 105, 110, 32, 50, 52, 32, 104, 111, 117, 114, 115>>

\* "cannot provide diagnosis, dosing"
CannotProvide == <<99, 97, 110, 110, 111, 116, 32, 112, 114, 111, 118, 105, 100, 101, 32, 100,
    105, 97, 103, 110, 111, 115, 105, 115, 44, 32, 100, 111, 115, 105, 110, 103>>

\* the members of triageLevelSchema, as JSON strings
LevelText == [RED |-> <<82, 69, 68>>, YELLOW |-> <<89, 69, 76, 76, 79, 87>>,
              GREEN |-> <<71, 82, 69, 69, 78>>, BLUE |-> <<66, 76, 85, 69>>]

\* triageLevelSchema: z.enum(["RED", "YELLOW", "GREEN", "BLUE"])
triageLevelSchema == DOMAIN LevelText

\* symptomCheckResponseSchema string bounds
SummaryMin == 5
SummaryMax == 600
ExplanationMin == 5
ExplanationMax == 1000
ActionMin == 5
ActionMax == 600
DisclaimerMin == 10
DisclaimerMax == 400

\* symptomCheckSchema bounds
SymptomsMin == 10
SymptomsMax == 3000
AgeMin == 0
AgeMax == 120
ContextMax == 1500

\* the five keys of a TriageResult
TriageFields == {"summary", "triageLevel", "explanation", "recommendedAction", "disclaimer"}

----------------------------------------------------------------------------
(* Triage: the rule engine                                                 *)

\* createRuleBasedRedResponse
createRuleBasedRedResponse(reason) ==
    [summary |-> RedSummary,
     triageLevel |-> "RED",
     explanation |-> RedExplanationPrefix \o reason \o RedExplanationSuffix,
     recommendedAction |-> RedActionPrefix \o INDIA_EMERGENCY_NUMBER \o RedActionSuffix,
     disclaimer |-> DEFAULT_TRIAGE_DISCLAIMER \o RedDisclaimerSuffix]

\* createRuleBasedSafetyRefusalResponse
createRuleBasedSafetyRefusalResponse ==
    [summary |-> RefusalSummary,
     triageLevel |-> "YELLOW",
     explanation |-> RefusalExplanation,
     recommendedAction |-> RefusalAction,
     disclaimer |-> DEFAULT_TRIAGE_DISCLAIMER]

\* the two fields joined without .toLowerCase() (a mutation of CombinedText)
CombinedText_CaseSensitive(input) ==
    input.symptoms \o <<32>> \o
    (IF input.additionalContext.undefined THEN <<>> ELSE input.additionalContext.s)

\* `${input.symptoms} ${input.additionalContext ?? ""}`.toLowerCase()
CombinedText(input) ==
    toLowerCase(input.symptoms \o <<32>> \o
                (IF input.additionalContext.undefined THEN <<>> ELSE input.additionalContext.s))

\* keywords.find(keyword => combined.includes(keyword)): indices of the keywords contained
KeywordHits(keywords, combined) ==
    With(combined, LAMBDA t : {k \in 1..Len(keywords) : Includes(t, keywords[k])})

\* keywords.some(keyword => combined.includes(keyword))
SomeKeyword(keywords, combined) == KeywordHits(keywords, combined) # {}

\* end (exclusive) of (?:spo2|oxygen(?: level)?|o2) tried at index i, 0 when it fails.
\* At most one alternative fits an index; " level" is taken whenever it follows
\* "oxygen" (giving it back leaves "l", which nothing after it in the pattern accepts).
OxygenNameEnd(s, i) ==
    IF MatchLit(s, i, <<115, 112, 111, 50>>) THEN i + 4                     \* "spo2"
    ELSE IF MatchLit(s, i, <<111, 120, 121, 103, 101, 110>>)                \* "oxygen"
         THEN IF MatchLit(s, i + 6, <<32, 108, 101, 118, 101, 108>>)        \* " level"
              THEN i + 12 ELSE i + 6
    ELSE IF MatchLit(s, i, <<111, 50>>) THEN i + 2                          \* "o2"
    ELSE 0

\* end (exclusive) of (?:is|:|=|at)? tried at index j
OxygenLinkEnd(s, j) ==
    IF MatchLit(s, j, <<105, 115>>) \/ MatchLit(s, j, <<97, 116>>) THEN j + 2   \* "is", "at"
    ELSE IF MatchLit(s, j, <<58>>) \/ MatchLit(s, j, <<61>>) THEN j + 1         \* ":", "="
    ELSE j

\* the oxygen pattern tried at index i:
\*   (?:spo2|oxygen(?: level)?|o2)\s*(?:is|:|=|at)?\s*(\d{2,3}(?:\.\d+)?)
\* White space, the link words and digits are disjoint classes, so no backtracking
\* finds a match the greedy path misses. e is the end of the name, d the index of the
\* first digit, p the end of \d{2,3}; whole is the integer part of group 1 and
\* fraction its digits after the point.
OxygenMatchAt(s, i) ==
    With(OxygenNameEnd(s, i), LAMBDA e :
        IF e = 0 THEN [matched |-> FALSE]
        ELSE With(SkipSpaces(s, OxygenLinkEnd(s, SkipSpaces(s, e))), LAMBDA d :
            With(SkipDigits(s, d), LAMBDA n :
                IF n - d < 2 THEN [matched |-> FALSE]
                ELSE With(IF n - d >= 3 THEN d + 3 ELSE d + 2, LAMBDA p :
                    [matched |-> TRUE, index |-> i,
                     whole |-> SubSeq(s, d, p - 1),
                     fraction |-> IF p <= Len(s) /\ s[p] = 46
                                  THEN SubSeq(s, p + 1, SkipDigits(s, p + 1) - 1)
                                  ELSE <<>>]))))

\* the indices of s at which the oxygen pattern matches
OxygenMatchIndices(s) == With(s, LAMBDA t : {i \in 1..Len(t) : OxygenMatchAt(t, i).matched})

\* combined.match(/.../i) without the g flag: the leftmost match only, or none
OxygenMatch(s) ==
    With(s, LAMBDA t :
        With(OxygenMatchIndices(t), LAMBDA found :
            IF found = {} THEN [matched |-> FALSE] ELSE OxygenMatchAt(t, MinOf(found))))

\* the comparison with the bound included (a mutation of OxygenBelow90)
OxygenBelow90_Inclusive(m) == DigitsValue(m.whole) <= 90

\* Number(oxygenMatch[1]) < 90; the fraction is in [0, 1) so the integer part decides
OxygenBelow90(m) == DigitsValue(m.whole) < 90

\* the absent result of a rule check
NoReason == [found |-> FALSE]

\* ruleBasedEmergencyCheck: the first emergency keyword contained in the text, else
\* the oxygen reason when the leftmost oxygen reading is below 90, else null
ruleBasedEmergencyCheck(input) ==
    With(CombinedText(input), LAMBDA combined :
        With(KeywordHits(emergencyKeywords, combined), LAMBDA hits :
            IF hits # {} THEN [found |-> TRUE, reason |-> emergencyKeywords[MinOf(hits)]]
            ELSE With(OxygenMatch(combined), LAMBDA oxygenMatch :
                IF oxygenMatch.matched /\ OxygenBelow90(oxygenMatch)
                THEN [found |-> TRUE, reason |-> OxygenReason]
                ELSE NoReason)))

\* the check with the dosage list alone (a mutation of ruleBasedSafetyRefusalCheck)
ruleBasedSafetyRefusalCheck_DosageOnly(input) ==
    SomeKeyword(dosageRequestKeywords, CombinedText(input))

\* ruleBasedSafetyRefusalCheck
ruleBasedSafetyRefusalCheck(input) ==
    \E combined \in {CombinedText(input)} :
        \/ SomeKeyword(dosageRequestKeywords, combined)
        \/ SomeKeyword(diagnosisRequestKeywords, combined)
        \/ SomeKeyword(safetyBypassKeywords, combined)

----------------------------------------------------------------------------
(* JSON values and the text the external model sends back                  *)

\* JSON null
JNull == [t |-> "null"]

\* a JSON string
JString(s) == [t |-> "string", s |-> s]

\* a JSON number
JNumber(n) == [t |-> "number", n |-> n]

\* a JSON array
JArray(items) == [t |-> "array", items |-> items]

\* a JSON object; f maps its keys to JSON values
JObject(f) == [t |-> "object", f |-> f]

\* JavaScript truthiness of a parsed JSON value: null, 0 and "" are falsy
Truthy(v) ==
    CASE v.t = "null" -> FALSE
      [] v.t = "number" -> v.n # 0
      [] v.t = "string" -> Len(v.s) > 0
      [] OTHER -> TRUE

\* The text of a model reply is a sequence of segments:
\*   [k |-> "space"]           white space
\*   [k |-> "prose"]           words holding no brace
\*   [k |-> "braces"]          a "{...}" group that is not JSON, such as "{note}"
\*   [k |-> "json", v |-> x]   the serialization of the JSON value x
SegSpace == [k |-> "space"]
SegProse == [k |-> "prose"]
SegBraces == [k |-> "braces"]
SegJson(v) == [k |-> "json", v |-> v]

\* the segment holds "{" and "}": it opens with the one and closes with the other
HasBraces(seg) == seg.k = "braces" \/ (seg.k = "json" /\ seg.v.t = "object")

\* text.trim() on segments
TrimSegs(segs) ==
    LET keep == {i \in 1..Len(segs) : segs[i].k # "space"}
    IN  IF keep = {} THEN <<>> ELSE SubSeq(segs, MinOf(keep), MaxOf(keep))

\* JSON.parse: succeeds on exactly one JSON value with white space around it
JSONparse(segs) ==
    LET body == TrimSegs(segs)
    IN  IF Len(body) = 1 /\ body[1].k = "json"
        THEN [ok |-> TRUE, v |-> body[1].v]
        ELSE [ok |-> FALSE]

\* rawText.match(/\{[\s\S]*\}/)?.[0]: greedy, from the first "{" to the last "}"
MatchBraces(segs) ==
    LET b == {i \in 1..Len(segs) : HasBraces(segs[i])}
    IN  IF b = {} THEN [matched |-> FALSE]
        ELSE [matched |-> TRUE, text |-> SubSeq(segs, MinOf(b), MaxOf(b))]

\* What a fetch of the external model can do:
\*   [kind |-> "reject"]                 fetch rejects (network error)
\*   [kind |-> "status"]                 a response whose status is not 2xx
\*   [kind |-> "badbody"]                response.json() rejects
\*   [kind |-> "notext"]                 no candidates[0].content.parts[0].text
\*   [kind |-> "text", text |-> segs]    the text of the first candidate
FetchReject == [kind |-> "reject"]
FetchStatus == [kind |-> "status"]
FetchBadBody == [kind |-> "badbody"]
FetchNoText == [kind |-> "notext"]
FetchText(segs) == [kind |-> "text", text |-> segs]

----------------------------------------------------------------------------
(* Triage: schema validation and the pipeline                              *)

\* a string check that drops .min and .max (a mutation of IsStringOf)
IsStringOf_AnyLength(v, lo, hi) == v.t = "string"

\* z.string().min(lo).max(hi)
IsStringOf(v, lo, hi) == v.t = "string" /\ Len(v.s) >= lo /\ Len(v.s) <= hi

\* the key of triageLevelSchema a JSON value spells, "" when it spells none
LevelOf(v) ==
    IF v.t = "string" /\ \E l \in triageLevelSchema : LevelText[l] = v.s
    THEN CHOOSE l \in triageLevelSchema : LevelText[l] = v.s
    ELSE ""

\* the keys symptomCheckResponseSchema accepts; .strict() admits no other key
StrictKeys(f) == DOMAIN f = TriageFields

\* symptomCheckResponseSchema.safeParse
symptomCheckResponseSchema(v) ==
    IF /\ v.t = "object"
       /\ StrictKeys(v.f)
       /\ IsStringOf(v.f["summary"], SummaryMin, SummaryMax)
       /\ LevelOf(v.f["triageLevel"]) # ""
       /\ IsStringOf(v.f["explanation"], ExplanationMin, ExplanationMax)
       /\ IsStringOf(v.f["recommendedAction"], ActionMin, ActionMax)
       /\ IsStringOf(v.f["disclaimer"], DisclaimerMin, DisclaimerMax)
    THEN [success |-> TRUE,
          data |-> [k \in DOMAIN v.f |->
                      IF k = "triageLevel" THEN LevelOf(v.f[k]) ELSE v.f[k].s]]
    ELSE [success |-> FALSE]

\* the gates reading the text as it was posted (a mutation of NormalizedInput)
NormalizedInput_Raw(input) ==
    [symptoms |-> input.symptoms,
     additionalContext |->
        IF ~input.additionalContext.undefined /\ Len(input.additionalContext.s) > 0
        THEN Str(input.additionalContext.s)
        ELSE Undefined]

\* the input the rule gates read: both fields sanitized, an empty context dropped
NormalizedInput(input) ==
    [symptoms |-> sanitizeTriageText(input.symptoms),
     additionalContext |->
        IF ~input.additionalContext.undefined /\ Len(input.additionalContext.s) > 0
        THEN Str(sanitizeTriageText(input.additionalContext.s))
        ELSE Undefined]

\* the two gates in the order swapped (a mutation of TriageGates)
TriageGates_SafetyFirst(normalizedInput) ==
    IF ruleBasedSafetyRefusalCheck(normalizedInput)
    THEN [stages |-> <<"SafetyGate">>, terminal |-> "RuleBasedSafetyRefusal",
          value |-> createRuleBasedSafetyRefusalResponse]
    ELSE IF ruleBasedEmergencyCheck(normalizedInput).found
    THEN [stages |-> <<"SafetyGate", "EmergencyGate">>, terminal |-> "RuleBasedRed",
          value |-> createRuleBasedRedResponse(ruleBasedEmergencyCheck(normalizedInput).reason)]
    ELSE [stages |-> <<"SafetyGate", "EmergencyGate">>, terminal |-> "none"]

\* runSymptomTriage, the rule gates: the emergency check, and the safety-refusal check
\* only when the emergency check returned null
TriageGates(normalizedInput) ==
    With(ruleBasedEmergencyCheck(normalizedInput), LAMBDA emergencyReason :
        IF emergencyReason.found
        THEN [stages |-> <<"EmergencyGate">>, terminal |-> "RuleBasedRed",
              value |-> createRuleBasedRedResponse(emergencyReason.reason)]
        ELSE IF ruleBasedSafetyRefusalCheck(normalizedInput)
        THEN [stages |-> <<"EmergencyGate", "SafetyGate">>,
              terminal |-> "RuleBasedSafetyRefusal",
              value |-> createRuleBasedSafetyRefusalResponse]
        ELSE [stages |-> <<"EmergencyGate", "SafetyGate">>, terminal |-> "none"])

\* runSymptomTriage from the reply of the fetch on: status, text, JSON.parse with the
\* brace fallback, schema validation. Every failure throws.
TriageModelResult(outcome) ==
    LET Throw(stages, message) ==
            [kind |-> "throw", terminal |-> "Failed", stages |-> stages, message |-> message]
        rawText == IF outcome.kind = "text" THEN TrimSegs(outcome.text) ELSE <<>>
        direct == JSONparse(rawText)
        possibleJson == MatchBraces(rawText)
        second == IF possibleJson.matched THEN JSONparse(possibleJson.text) ELSE [ok |-> FALSE]
        parsedJson == IF direct.ok THEN direct.v ELSE second.v
        parsed == symptomCheckResponseSchema(parsedJson)
    IN  IF outcome.kind = "reject" THEN Throw(<<"Model">>, "fetch failed")
        ELSE IF outcome.kind = "status" THEN Throw(<<"Model">>, "Gemini request failed")
        ELSE IF outcome.kind = "badbody" THEN Throw(<<"Model">>, "response.json() failed")
        ELSE IF Len(rawText) = 0 THEN Throw(<<"Model">>, "Gemini returned empty output")
        ELSE IF ~direct.ok /\ ~possibleJson.matched
             THEN Throw(<<"Model">>, "Gemini returned non-JSON output")
        ELSE IF ~direct.ok /\ ~second.ok THEN Throw(<<"Model">>, "JSON.parse failed")
        ELSE IF ~parsed.success
             THEN Throw(<<"Model", "Validate">>, "Gemini output did not match required format")
        ELSE [kind |-> "return", terminal |-> "ModelValidated",
              stages |-> <<"Model", "Validate">>, value |-> parsed.data]

\* the schema without its age line (a mutation of symptomCheckSchema)
symptomCheckSchema_NoAge(body) ==
    /\ body.json
    /\ Len(body.symptoms) >= SymptomsMin
    /\ Len(body.symptoms) <= SymptomsMax
    /\ (body.additionalContext.undefined \/ Len(body.additionalContext.s) <= ContextMax)

\* symptomCheckSchema.safeParse on symptoms, age and additionalContext; null, which
\* parseBody passes for a body that is not JSON, is no object
symptomCheckSchema(body) ==
    /\ body.json
    /\ Len(body.symptoms) >= SymptomsMin
    /\ Len(body.symptoms) <= SymptomsMax
    /\ \/ body.age.undefined
       \/ (body.age.tenths = 0 /\ body.age.n >= AgeMin /\ body.age.n <= AgeMax)
    /\ (body.additionalContext.undefined \/ Len(body.additionalContext.s) <= ContextMax)

\* getActor without a role list: 401 without a known user, 403 for an unapproved
\* doctor or pharmacy, 0 when the actor passes
ActorStatus(actor) ==
    CASE actor \in {"noHeader", "unknownUser"} -> 401
      [] actor = "pendingApproval" -> 403
      [] OTHER -> 0

\* the callers getActor tells apart
Actors == {"noHeader", "unknownUser", "pendingApproval", "approved"}

\* a guessed urgency in place of the error (a mutation of Unavailable)
Unavailable_Guess(message) == [status |-> 200, triage |-> createRuleBasedSafetyRefusalResponse]

\* the handler's catch: c.json({ error: message }, 503)
Unavailable(message) == [status |-> 503, error |-> message]

\* no request body accepted yet
NoRequest == [valid |-> FALSE]

\* nothing returned or thrown yet
NoReturn == [kind |-> "none"]

\* no HTTP response sent yet
NoResponse == [status |-> 0]

----------------------------------------------------------------------------
(* Triage: the requests and the model replies explored                     *)

\* most words a symptoms text is built from
MaxWords == 2

\* the words of a symptoms text
TriageWords == {
    <<67, 104, 101, 115, 116>>,  \* "Chest"
    <<112, 97, 105, 110>>,  \* "pain"
    <<111, 120, 121, 103, 101, 110, 32, 57, 53, 37>>,  \* "oxygen 95%"
    <<111, 120, 121, 103, 101, 110, 32, 56, 56, 37>> }  \* "oxygen 88%"

\* what separates the words: one space, or a tab, a line feed and a space
Separators == { <<32>>, <<9, 10, 32>> }

\* the symptoms texts: 1..MaxWords words
WordLists == UNION {[1..n -> TriageWords] : n \in 1..MaxWords}

\* the additionalContext values
Contexts == {
    Undefined,
    Str(<<>>),
    Str(<<115, 101, 118, 101, 114, 101, 32, 67, 72, 69, 83, 84, 32, 32, 80, 65, 73, 78>>),  \* "severe CHEST  PAIN"
    Str(<<68, 105, 97, 103, 110, 111, 115, 101, 32, 109, 101>>),  \* "Diagnose me"
    Str(<<119, 104, 97, 116, 32, 68, 111, 115, 97, 103, 101>>),  \* "what Dosage"
    Str(<<73, 103, 110, 111, 114, 101, 32, 115, 97, 102, 101, 116, 121>>),  \* "Ignore safety"
    Str(<<83, 112, 79, 50, 32, 105, 115, 32, 56, 56>>) }  \* "SpO2 is 88"

\* the age values: absent, the ends of 0..120, one below, one above, and 30.5
Ages == {Undefined, Num(0 - 1, 0), Num(0, 0), Num(120, 0), Num(121, 0), Num(30, 5)}

\* the bodies posted to /ai/symptom-checker: one that is not JSON, every symptoms text
\* and context with no age, and every age with one symptoms text
TriageBodies ==
    {NotJson}
    \cup {[json |-> TRUE, symptoms |-> Join(words, sep), age |-> Undefined,
           additionalContext |-> ctx] :
            words \in WordLists, sep \in Separators, ctx \in Contexts}
    \cup {[json |-> TRUE, symptoms |-> <<111, 120, 121, 103, 101, 110, 32, 57, 53, 37>>,  \* "oxygen 95%"
           age |-> age, additionalContext |-> Undefined] : age \in Ages}

\* "Mild headache reported since this morning."
TxtSummary == <<77, 105, 108, 100, 32, 104, 101, 97, 100, 97, 99, 104, 101, 32,
    114, 101, 112, 111, 114, 116, 101, 100, 32, 115, 105, 110, 99, 101, 32, 116, 104, 105, 115,
    32, 109, 111, 114, 110, 105, 110, 103, 46>>
\* "Symptoms look mild and stable."
TxtExplanation == <<83, 121, 109, 112, 116, 111, 109, 115, 32, 108, 111, 111, 107, 32,
    109, 105, 108, 100, 32, 97, 110, 100, 32, 115, 116, 97, 98, 108, 101, 46>>
\* "Schedule a routine consultation with a doctor."
TxtAction == <<83, 99, 104, 101, 100, 117, 108, 101, 32, 97, 32, 114, 111, 117, 116, 105,
    110, 101, 32, 99, 111, 110, 115, 117, 108, 116, 97, 116, 105, 111, 110, 32, 119, 105, 116,
    104, 32, 97, 32, 100, 111, 99, 116, 111, 114, 46>>
\* "This is not a diagnosis. Consult a licensed doctor."
TxtDisclaimer == <<84, 104, 105, 115, 32, 105, 115, 32, 110, 111, 116, 32, 97, 32, 100,
    105, 97, 103, 110, 111, 115, 105, 115, 46, 32, 67, 111, 110, 115, 117, 108, 116, 32, 97,
    32, 108, 105, 99, 101, 110, 115, 101, 100, 32, 100, 111, 99, 116, 111, 114, 46>>
\* "Hi."
TxtShort == <<72, 105, 46>>

\* a reply object with the five fields
TriageJson(level, summary, disclaimer) ==
    [summary |-> JString(summary), triageLevel |-> JString(level),
     explanation |-> JString(TxtExplanation), recommendedAction |-> JString(TxtAction),
     disclaimer |-> JString(disclaimer)]

\* a GREEN reply that meets the schema
GoodGreen == TriageJson(LevelText["GREEN"], TxtSummary, TxtDisclaimer)

\* a RED reply that meets the schema
GoodRed == TriageJson(LevelText["RED"], TxtSummary, TxtDisclaimer)

\* the reply objects that break the schema: an extra key, a missing key, a level outside
\* the enum ("ORANGE"), a level in lower case ("red"), a summary and a disclaimer too short
BadTriageJson == {
    [k \in TriageFields \cup {"diagnosis"} |->
        IF k = "diagnosis" THEN JString(TxtSummary) ELSE GoodGreen[k]],
    [k \in TriageFields \ {"disclaimer"} |-> GoodGreen[k]],
    TriageJson(<<79, 82, 65, 78, 71, 69>>, TxtSummary, TxtDisclaimer),
    TriageJson(<<114, 101, 100>>, TxtSummary, TxtDisclaimer),
    TriageJson(LevelText["GREEN"], TxtShort, TxtDisclaimer),
    TriageJson(LevelText["GREEN"], TxtSummary, TxtShort) }

\* what the external model does on a triage call
TriageReplies ==
    {FetchReject, FetchStatus, FetchBadBody, FetchNoText,
     FetchText(<<SegSpace>>),
     FetchText(<<SegProse>>),
     FetchText(<<SegBraces>>),
     FetchText(<<SegJson(JNull)>>),
     FetchText(<<SegJson(JObject(GoodGreen))>>),
     FetchText(<<SegSpace, SegJson(JObject(GoodRed)), SegSpace>>),
     FetchText(<<SegProse, SegSpace, SegJson(JObject(GoodGreen)), SegSpace, SegProse>>),
     FetchText(<<SegJson(JObject(GoodGreen)), SegProse, SegBraces>>)}
    \cup {FetchText(<<SegJson(JObject(o))>>) : o \in BadTriageJson}

----------------------------------------------------------------------------
(* Triage: POST /ai/symptom-checker                                        *)

\* getActor and parseBody: 401/403 for a rejected actor, 400 for an invalid payload
TriageReceive(actor, body) ==
    /\ pc = "idle"
    /\ route' = "triage"
    /\ IF ActorStatus(actor) # 0
       THEN /\ response' = [status |-> ActorStatus(actor), error |-> "actor"]
            /\ pc' = "done"
            /\ req' = req
       ELSE IF ~symptomCheckSchema(body)
       THEN /\ response' = [status |-> 400, error |-> "Invalid payload"]
            /\ pc' = "done"
            /\ req' = req
       ELSE /\ req' = [valid |-> TRUE, symptoms |-> body.symptoms,
                       additionalContext |-> body.additionalContext]
            /\ pc' = "run"
            /\ response' = response
    /\ UNCHANGED <<roomVars, bookingVars, env, fallback, candidate, modelCalls, replies, ret, audit, trace>>

\* runSymptomTriage up to its first await: sanitize, the rule gates, the API-key check,
\* then the fetch is issued; the handler's catch answers 503 when the key is missing
TriageRun ==
    /\ pc = "run"
    /\ route = "triage"
    /\ \E gates \in {TriageGates(NormalizedInput(req))} :
           IF gates.terminal # "none"
           THEN /\ ret' = [kind |-> "return", terminal |-> gates.terminal, value |-> gates.value]
                /\ trace' = <<"Sanitize">> \o gates.stages \o <<"Result">>
                /\ pc' = "audit"
                /\ UNCHANGED <<modelCalls, response>>
           ELSE IF ~env.GEMINI_API_KEY
           THEN /\ ret' = [kind |-> "throw", terminal |-> "Failed",
                           message |-> "GEMINI_API_KEY is missing"]
                /\ trace' = <<"Sanitize">> \o gates.stages
                /\ response' = Unavailable("GEMINI_API_KEY is missing")
                /\ pc' = "done"
                /\ UNCHANGED modelCalls
           ELSE /\ modelCalls' = modelCalls + 1
                /\ trace' = <<"Sanitize">> \o gates.stages
                /\ pc' = "fetch"
                /\ UNCHANGED <<ret, response>>
    /\ UNCHANGED <<roomVars, bookingVars, env, route, req, fallback, candidate, replies, audit>>

\* the fetch of runSymptomTriage settles and a failure is fetched once more
\* (a mutation of TriageFetched)
TriageFetched_Retry(outcome) ==
    /\ pc = "fetch"
    /\ route = "triage"
    /\ replies' = Append(replies, outcome)
    /\ \E result \in {TriageModelResult(outcome)} :
           IF result.kind = "return"
           THEN /\ ret' = [kind |-> "return", terminal |-> result.terminal,
                           value |-> result.value]
                /\ trace' = trace \o result.stages \o <<"Result">>
                /\ pc' = "audit"
                /\ UNCHANGED <<modelCalls, response>>
           ELSE IF modelCalls < 2
           THEN /\ modelCalls' = modelCalls + 1
                /\ trace' = trace \o result.stages
                /\ UNCHANGED <<pc, ret, response>>
           ELSE /\ ret' = [kind |-> "throw", terminal |-> result.terminal,
                           message |-> result.message]
                /\ trace' = trace \o result.stages
                /\ response' = Unavailable(result.message)
                /\ pc' = "done"
                /\ UNCHANGED modelCalls
    /\ UNCHANGED <<roomVars, bookingVars, env, route, req, fallback, candidate, audit>>

\* the fetch of runSymptomTriage settles: the rest of runSymptomTriage runs, and the
\* handler's catch answers 503 to whatever it throws
TriageFetched(outcome) ==
    /\ pc = "fetch"
    /\ route = "triage"
    /\ replies' = Append(replies, outcome)
    /\ \E result \in {TriageModelResult(outcome)} :
           IF result.kind = "return"
           THEN /\ ret' = [kind |-> "return", terminal |-> result.terminal,
                           value |-> result.value]
                /\ trace' = trace \o result.stages \o <<"Result">>
                /\ pc' = "audit"
                /\ response' = response
           ELSE /\ ret' = [kind |-> "throw", terminal |-> result.terminal,
                           message |-> result.message]
                /\ trace' = trace \o result.stages
                /\ response' = Unavailable(result.message)
                /\ pc' = "done"
    /\ UNCHANGED <<roomVars, bookingVars, env, route, req, fallback, candidate, modelCalls, audit>>

\* c.json({ triage, meta })
TriageOk(triage) == [status |-> 200, triage |-> triage]

\* the AI_SYMPTOM_TRIAGE row
TriageAuditRow(triage) == [action |-> "AI_SYMPTOM_TRIAGE", triageLevel |-> triage.triageLevel]

\* the SOS_ALERT_RAISED row
SosAuditRow(triage, body) ==
    [action |-> "SOS_ALERT_RAISED", triageLevel |-> triage.triageLevel,
     summary |-> triage.summary, explanation |-> triage.explanation,
     recommendedAction |-> triage.recommendedAction,
     symptoms |-> SubSeq(body.symptoms, 1, IF Len(body.symptoms) < 1200
                                            THEN Len(body.symptoms) ELSE 1200)]

\* the triage row is written and every result is answered at once, a RED one without
\* its alert row (a mutation of TriageAudit)
TriageAudit_NoAlert(written) ==
    /\ pc = "audit"
    /\ route = "triage"
    /\ IF ~written
       THEN /\ response' = Unavailable("audit write failed")
            /\ audit' = audit
       ELSE /\ audit' = Append(audit, TriageAuditRow(ret.value))
            /\ response' = TriageOk(ret.value)
    /\ pc' = "done"
    /\ UNCHANGED <<roomVars, bookingVars, env, route, req, fallback, candidate, modelCalls, replies, ret, trace>>

\* await createAuditLog(AI_SYMPTOM_TRIAGE): the write succeeds (written) or rejects;
\* a RED result goes on to the alert row, any other is answered
TriageAudit(written) ==
    /\ pc = "audit"
    /\ route = "triage"
    /\ IF ~written
       THEN /\ response' = Unavailable("audit write failed")
            /\ pc' = "done"
            /\ audit' = audit
       ELSE /\ audit' = Append(audit, TriageAuditRow(ret.value))
            /\ IF ret.value.triageLevel = "RED"
               THEN pc' = "alert" /\ response' = response
               ELSE pc' = "done" /\ response' = TriageOk(ret.value)
    /\ UNCHANGED <<roomVars, bookingVars, env, route, req, fallback, candidate, modelCalls, replies, ret, trace>>

\* await createAuditLog(SOS_ALERT_RAISED) for a RED result, then the answer
TriageAlert(written) ==
    /\ pc = "alert"
    /\ route = "triage"
    /\ IF ~written
       THEN /\ response' = Unavailable("audit write failed")
            /\ audit' = audit
       ELSE /\ audit' = Append(audit, SosAuditRow(ret.value, req))
            /\ response' = TriageOk(ret.value)
    /\ pc' = "done"
    /\ UNCHANGED <<roomVars, bookingVars, env, route, req, fallback, candidate, modelCalls, replies, ret, trace>>

----------------------------------------------------------------------------
(* Triage: the claims                                                      *)

\* a symptom-checker request passed parseBody and runSymptomTriage has run its gates
TriageRan == route = "triage" /\ req.valid /\ pc \notin {"idle", "run"}

\* the elements of a sequence
Range(seq) == {seq[i] : i \in 1..Len(seq)}

\* some phrase of the lists occurs, in any letter case, in the sanitized field
HasPhrase(field, lists) ==
    ~field.undefined /\
    \E t \in {toLowerCase(sanitizeTriageText(field.s))} :
        \E keywords \in lists : \E k \in 1..Len(keywords) : Includes(t, keywords[k])

\* the request carries an emergency phrase in its symptoms or its additionalContext
EmergencyPhraseInRequest ==
    \/ HasPhrase(Str(req.symptoms), {emergencyKeywords})
    \/ HasPhrase(req.additionalContext, {emergencyKeywords})

\* the request carries a dosage-request, diagnosis-request or safety-bypass phrase
SafetyPhraseInRequest ==
    LET lists == {dosageRequestKeywords, diagnosisRequestKeywords, safetyBypassKeywords}
    IN  HasPhrase(Str(req.symptoms), lists) \/ HasPhrase(req.additionalContext, lists)

\* the emergency gate matched the request
EmergencyGateMatched == ruleBasedEmergencyCheck(NormalizedInput(req)).found

\* runSymptomTriage returned a result of the given level
Returned(level) == ret.kind = "return" /\ ret.value.triageLevel = level

\* C1: a request whose sanitized symptoms or additionalContext holds an emergency phrase,
\* in any letter case, gets a RED result from runSymptomTriage and no call to the
\* external model is made, with or without an API key.
C1_EmergencyPhraseIsRed ==
    (TriageRan /\ EmergencyPhraseInRequest)
        => (Returned("RED") /\ modelCalls = 0 /\ replies = <<>>)

\* C1 witness: without an API key, a request with an emergency phrase was answered RED
C1_Witness ==
    /\ TriageRan
    /\ pc = "done"
    /\ ~env.GEMINI_API_KEY
    /\ EmergencyPhraseInRequest
    /\ response.status = 200
    /\ response.triage.triageLevel = "RED"
    /\ modelCalls = 0

\* C2: a request with a dosage, diagnosis or bypass phrase that the emergency gate does
\* not match gets the fixed YELLOW refusal (its explanation declines diagnosis and
\* dosing, its recommendedAction names a doctor within 24 hours) and no model call.
C2_SafetyPhraseIsRefused ==
    (TriageRan /\ SafetyPhraseInRequest /\ ~EmergencyGateMatched)
        => /\ Returned("YELLOW")
           /\ ret.value = createRuleBasedSafetyRefusalResponse
           /\ Includes(ret.value.explanation, CannotProvide)
           /\ Includes(ret.value.recommendedAction, Within24Hours)
           /\ modelCalls = 0
           /\ replies = <<>>

\* C2 witness: with an API key, a diagnosis request was answered with the refusal
C2_Witness ==
    /\ TriageRan
    /\ pc = "done"
    /\ env.GEMINI_API_KEY
    /\ HasPhrase(req.additionalContext, {diagnosisRequestKeywords})
    /\ ~EmergencyGateMatched
    /\ response.status = 200
    /\ response.triage.triageLevel = "YELLOW"
    /\ modelCalls = 0

\* C3: the safety-refusal check runs only after the emergency check found nothing, and
\* a request with both an emergency phrase and a safety phrase gets RED, never the
\* refusal.
C3_EmergencyBeforeSafety ==
    TriageRan
        => /\ "SafetyGate" \in Range(trace)
                => (~EmergencyGateMatched /\ SubSeq(trace, 1, 3) = <<"Sanitize", "EmergencyGate", "SafetyGate">>)
           /\ (EmergencyPhraseInRequest /\ SafetyPhraseInRequest)
                => (Returned("RED") /\ ret.terminal = "RuleBasedRed"
                    /\ ret.value # createRuleBasedSafetyRefusalResponse)

\* C3 witness: a request with both kinds of phrase was answered RED
C3_Witness ==
    /\ TriageRan
    /\ pc = "done"
    /\ EmergencyPhraseInRequest
    /\ SafetyPhraseInRequest
    /\ response.status = 200
    /\ response.triage.triageLevel = "RED"
    /\ "SafetyGate" \notin Range(trace)

\* the text holds an oxygen mention whose captured value is below 90
OxygenMentionBelow90(s) ==
    \E t \in {s} : \E i \in OxygenMatchIndices(t) : DigitsValue(OxygenMatchAt(t, i).whole) < 90

\* the text holds oxygen mentions, and every captured value is 90 or above
OxygenMentionsAllNormal(s) ==
    \E t \in {s} :
        /\ OxygenMatchIndices(t) # {}
        /\ \A i \in OxygenMatchIndices(t) : DigitsValue(OxygenMatchAt(t, i).whole) >= 90

\* C4: whenever the text holds an oxygen mention whose captured value is below 90 the
\* emergency gate matches and the result is RED; oxygen readings of 90 or above with no
\* emergency phrase do not trigger the emergency gate.
C4_OxygenBelow90IsRed ==
    TriageRan
        => /\ OxygenMentionBelow90(CombinedText(NormalizedInput(req)))
                => (EmergencyGateMatched /\ Returned("RED"))
           /\ (OxygenMentionsAllNormal(CombinedText(NormalizedInput(req)))
               /\ ~EmergencyPhraseInRequest)
                => (~EmergencyGateMatched /\ ~(ret.kind = "return" /\ ret.terminal = "RuleBasedRed"))

\* the safety-refusal gate matched the request
SafetyGateMatched == ruleBasedSafetyRefusalCheck(NormalizedInput(req))

\* a TriageResult of the closed contract: the five fields and no other, a level of the
\* enum, and every string within its bounds
MeetsTriageContract(r) ==
    /\ DOMAIN r = {"summary", "triageLevel", "explanation", "recommendedAction", "disclaimer"}
    /\ r.triageLevel \in {"RED", "YELLOW", "GREEN", "BLUE"}
    /\ Len(r.summary) >= SummaryMin /\ Len(r.summary) <= SummaryMax
    /\ Len(r.explanation) >= ExplanationMin /\ Len(r.explanation) <= ExplanationMax
    /\ Len(r.recommendedAction) >= ActionMin /\ Len(r.recommendedAction) <= ActionMax
    /\ Len(r.disclaimer) >= DisclaimerMin /\ Len(r.disclaimer) <= DisclaimerMax

\* the JSON value is an object of strings that spells a TriageResult of the contract
JsonMeetsTriageContract(v) ==
    /\ v.t = "object"
    /\ DOMAIN v.f = {"summary", "triageLevel", "explanation", "recommendedAction", "disclaimer"}
    /\ \A k \in DOMAIN v.f : v.f[k].t = "string"
    /\ \E l \in {"RED", "YELLOW", "GREEN", "BLUE"} :
          /\ LevelText[l] = v.f["triageLevel"].s
          /\ MeetsTriageContract([k \in DOMAIN v.f |->
                                    IF k = "triageLevel" THEN l ELSE v.f[k].s])

\* the reply of the model holds a JSON value that meets the triage contract
ReplyMeetsContract(o) ==
    /\ o.kind = "text"
    /\ \E i \in 1..Len(o.text) : o.text[i].k = "json" /\ JsonMeetsTriageContract(o.text[i].v)

\* the model is of no use to the request: no API key, or a call that failed, or a
\* reply with no JSON value of the contract in it
ModelUnusable == ~env.GEMINI_API_KEY \/ (replies # <<>> /\ ~ReplyMeetsContract(replies[1]))

\* C5: when neither gate matches and the model is unavailable or its output does not
\* meet the schema, the request ends Failed: the caller gets an explicit 503 error, no
\* triage result or level is returned or made up, and nothing is written to the audit.
C5_UnusableModelIsExplicitError ==
    (TriageRan /\ pc = "done" /\ ModelUnusable /\ ~EmergencyGateMatched /\ ~SafetyGateMatched)
        => /\ response.status = 503
           /\ DOMAIN response = {"status", "error"}
           /\ ret.kind = "throw"
           /\ ret.terminal = "Failed"
           /\ audit = <<>>

\* C5 witness: the model answered with JSON outside the schema and the caller got 503
C5_Witness ==
    /\ TriageRan
    /\ pc = "done"
    /\ env.GEMINI_API_KEY
    /\ modelCalls = 1
    /\ replies[1].kind = "text"
    /\ \E i \in 1..Len(replies[1].text) : replies[1].text[i].k = "json"
    /\ ~ReplyMeetsContract(replies[1])
    /\ response.status = 503
    /\ ret.kind = "throw"

\* C6: every result the triage pipeline returns, rule-based or model-validated, meets
\* the closed contract; its disclaimer is not empty; a rule-based RED result names the
\* emergency number 112 in its recommendedAction; and that result is what is answered.
C6_ResultsMeetContract ==
    (route = "triage" /\ ret.kind = "return")
        => /\ MeetsTriageContract(ret.value)
           /\ Len(ret.value.disclaimer) > 0
           /\ ret.terminal \in {"RuleBasedRed", "RuleBasedSafetyRefusal", "ModelValidated"}
           /\ ret.terminal = "RuleBasedRed" => Includes(ret.value.recommendedAction, <<49, 49, 50>>)
           /\ response.status = 200 => response.triage = ret.value

\* C6 witness: a model-validated result was answered
C6_Witness ==
    /\ route = "triage"
    /\ pc = "done"
    /\ ret.kind = "return"
    /\ ret.terminal = "ModelValidated"
    /\ response.status = 200
    /\ response.triage = ret.value

\* C10: one triage request issues at most one call to the external model, and a failed
\* or invalid reply is not followed by another call.
C10_AtMostOneModelCall ==
    route = "triage" => (modelCalls <= 1 /\ Len(replies) <= modelCalls)

\* C10 witness: the single call failed and the request ended with the error
C10_Witness ==
    /\ route = "triage"
    /\ pc = "done"
    /\ modelCalls = 1
    /\ Len(replies) = 1
    /\ ret.kind = "throw"
    /\ response.status = 503


\* the audit rows with the action
RowsOf(action) == {i \in 1..Len(audit) : audit[i].action = action}

\* C13: a triage result that is answered has its AI_SYMPTOM_TRIAGE row, carrying the
\* triageLevel of the result; a RED result, rule-based or model-validated, has in
\* addition one SOS_ALERT_RAISED row with its summary, explanation, recommendedAction
\* and the symptoms, written after the triage row and before the answer; a result that
\* is not RED never has an alert row; and no row is written without a result.
C13_AuditBeforeAnswer ==
    route = "triage"
        => /\ audit # <<>> => ret.kind = "return"
           /\ RowsOf("AI_SYMPTOM_TRIAGE") \subseteq {1}
           /\ RowsOf("SOS_ALERT_RAISED") \subseteq {2}
           /\ Len(audit) <= 2
           /\ 1 \in RowsOf("AI_SYMPTOM_TRIAGE")
                => audit[1].triageLevel = ret.value.triageLevel
           /\ 2 \in RowsOf("SOS_ALERT_RAISED")
                => /\ ret.value.triageLevel = "RED"
                   /\ audit[1].action = "AI_SYMPTOM_TRIAGE"
                   /\ audit[2].triageLevel = "RED"
                   /\ audit[2].summary = ret.value.summary
                   /\ audit[2].explanation = ret.value.explanation
                   /\ audit[2].recommendedAction = ret.value.recommendedAction
                   /\ audit[2].symptoms = req.symptoms
           /\ response.status = 200
                => Len(audit) = IF ret.value.triageLevel = "RED" THEN 2 ELSE 1
           /\ pc = "alert" => (response = NoResponse /\ Len(audit) = 1)

\* C13 witness: a model-validated RED result was answered after both rows were written
C13_Witness ==
    /\ route = "triage"
    /\ pc = "done"
    /\ ret.kind = "return"
    /\ ret.terminal = "ModelValidated"
    /\ ret.value.triageLevel = "RED"
    /\ Len(audit) = 2
    /\ audit[2].action = "SOS_ALERT_RAISED"
    /\ response.status = 200
----------------------------------------------------------------------------
(* Prescription simplifier: languages, timing slots and the phrase tables    *)

\* the spelling of each member of prescriptionLanguageSchema
LanguageText == [
    en |-> <<101, 110>>,  \* "en"
    hi |-> <<104, 105>>,  \* "hi"
    ta |-> <<116, 97>>,  \* "ta"
    bn |-> <<98, 110>> ]  \* "bn"

\* prescriptionLanguageSchema
prescriptionLanguageSchema == DOMAIN LanguageText

\* prescriptionLanguageLabels
prescriptionLanguageLabels == [
    en |-> <<69, 110, 103, 108, 105, 115, 104>>,  \* "English"
    hi |-> <<72, 105, 110, 100, 105>>,  \* "Hindi"
    ta |-> <<84, 97, 109, 105, 108>>,  \* "Tamil"
    bn |-> <<66, 101, 110, 103, 97, 108, 105>> ]  \* "Bengali"

\* the spelling of each member of prescriptionTimingSlotSchema
SlotText == [
    MORNING_BEFORE_FOOD |-> <<77, 79, 82, 78, 73, 78, 71, 95, 66, 69, 70, 79, 82, 69, 95, 70, 79, 79, 68>>,  \* "MORNING_BEFORE_FOOD"
    MORNING_AFTER_FOOD |-> <<77, 79, 82, 78, 73, 78, 71, 95, 65, 70, 84, 69, 82, 95, 70, 79, 79, 68>>,  \* "MORNING_AFTER_FOOD"
    AFTERNOON_BEFORE_FOOD |-> <<65, 70, 84, 69, 82, 78, 79, 79, 78, 95, 66, 69, 70, 79, 82, 69, 95, 70, 79, 79, 68>>,  \* "AFTERNOON_BEFORE_FOOD"
    AFTERNOON_AFTER_FOOD |-> <<65, 70, 84, 69, 82, 78, 79, 79, 78, 95, 65, 70, 84, 69, 82, 95, 70, 79, 79, 68>>,  \* "AFTERNOON_AFTER_FOOD"
    NIGHT_BEFORE_FOOD |-> <<78, 73, 71, 72, 84, 95, 66, 69, 70, 79, 82, 69, 95, 70, 79, 79, 68>>,  \* "NIGHT_BEFORE_FOOD"
    NIGHT_AFTER_FOOD |-> <<78, 73, 71, 72, 84, 95, 65, 70, 84, 69, 82, 95, 70, 79, 79, 68>>,  \* "NIGHT_AFTER_FOOD"
    BEDTIME |-> <<66, 69, 68, 84, 73, 77, 69>>,  \* "BEDTIME"
    AS_NEEDED |-> <<65, 83, 95, 78, 69, 69, 68, 69, 68>>,  \* "AS_NEEDED"
    UNSPECIFIED |-> <<85, 78, 83, 80, 69, 67, 73, 70, 73, 69, 68>> ]  \* "UNSPECIFIED"

\* prescriptionTimingSlotSchema
prescriptionTimingSlotSchema == DOMAIN SlotText

\* first and last code unit of the script block of each non-English language
prescriptionScriptRegexByLanguage ==
    [hi |-> [first |-> 2304, last |-> 2431],   \* [\u0900-\u097F]
     ta |-> [first |-> 2944, last |-> 3071],   \* [\u0B80-\u0BFF]
     bn |-> [first |-> 2432, last |-> 2559]]   \* [\u0980-\u09FF]

\* prescriptionFallbackByLanguage.en; usePrefix and useSuffix are the text of the
\* useDirective template around "${medicineName} ${dosage}", followPrefix and
\* followSuffix the text of followSchedule around "${duration}"
FallbackEn == [
    \* "Medicine"
    defaultMedicine |-> <<77, 101, 100, 105, 99, 105, 110, 101>>,
    \* "As prescribed"
    defaultDosage |-> <<65, 115, 32, 112, 114, 101, 115, 99, 114, 105, 98, 101, 100>>,
    \* "As advised"
    defaultDuration |-> <<65, 115, 32, 97, 100, 118, 105, 115, 101, 100>>,
    \* "Use "
    usePrefix |-> <<85, 115, 101, 32>>,
    \* " as directed by your doctor."
    useSuffix |-> <<32, 97, 115, 32, 100, 105, 114, 101, 99, 116, 101, 100, 32, 98, 121, 32,
        121, 111, 117, 114, 32, 100, 111, 99, 116, 111, 114, 46>>,
    \* "Follow the schedule for "
    followPrefix |-> <<70, 111, 108, 108, 111, 119, 32, 116, 104, 101, 32, 115, 99, 104, 101,
        100, 117, 108, 101, 32, 102, 111, 114, 32>>,
    \* "."
    followSuffix |-> <<46>>,
    \* "Take after food."
    takeAfterFood |-> <<84, 97, 107, 101, 32, 97, 102, 116, 101, 114, 32, 102, 111, 111, 100, 46>>,
    \* "Take before food."
    takeBeforeFood |-> <<84, 97, 107, 101, 32, 98, 101, 102, 111, 114, 101, 32, 102, 111, 111,
        100, 46>>,
    \* "Do not take on an empty stomach."
    warningEmptyStomach |-> <<68, 111, 32, 110, 111, 116, 32, 116, 97, 107, 101, 32, 111, 110,
        32, 97, 110, 32, 101, 109, 112, 116, 121, 32, 115, 116, 111, 109, 97, 99, 104, 46>>,
    \* "Follow warning instructions carefully."
    warningGeneric |-> <<70, 111, 108, 108, 111, 119, 32, 119, 97, 114, 110, 105, 110, 103, 32,
        105, 110, 115, 116, 114, 117, 99, 116, 105, 111, 110, 115, 32, 99, 97, 114, 101, 102,
        117, 108, 108, 121, 46>>,
    \* "Drink more water."
    hydrationTip |-> <<68, 114, 105, 110, 107, 32, 109, 111, 114, 101, 32, 119, 97, 116, 101,
        114, 46>>,
    \* "Consult a licensed doctor if symptoms worsen or if side effects appear."
    generalAdvice |-> <<67, 111, 110, 115, 117, 108, 116, 32, 97, 32, 108, 105, 99, 101, 110,
        115, 101, 100, 32, 100, 111, 99, 116, 111, 114, 32, 105, 102, 32, 115, 121, 109, 112,
        116, 111, 109, 115, 32, 119, 111, 114, 115, 101, 110, 32, 111, 114, 32, 105, 102, 32,
        115, 105, 100, 101, 32, 101, 102, 102, 101, 99, 116, 115, 32, 97, 112, 112, 101, 97,
        114, 46>> ]

\* prescriptionFallbackByLanguage.hi; usePrefix and useSuffix are the text of the
\* useDirective template around "${medicineName} ${dosage}", followPrefix and
\* followSuffix the text of followSchedule around "${duration}"
FallbackHi == [
    \* "दवा"
    defaultMedicine |-> <<2342, 2357, 2366>>,
    \* "डॉक्टर के अनुसार"
    defaultDosage |-> <<2337, 2377, 2325, 2381, 2335, 2352, 32, 2325, 2375, 32, 2309, 2344,
        2369, 2360, 2366, 2352>>,
    \* "डॉक्टर की सलाह तक"
    defaultDuration |-> <<2337, 2377, 2325, 2381, 2335, 2352, 32, 2325, 2368, 32, 2360, 2354,
        2366, 2361, 32, 2340, 2325>>,
    \* ""
    usePrefix |-> <<>>,
    \* " डॉक्टर के निर्देशानुसार लें।"
    useSuffix |-> <<32, 2337, 2377, 2325, 2381, 2335, 2352, 32, 2325, 2375, 32, 2344, 2367,
        2352, 2381, 2342, 2375, 2358, 2366, 2344, 2369, 2360, 2366, 2352, 32, 2354, 2375, 2306,
        2404>>,
    \* ""
    followPrefix |-> <<>>,
    \* " तक दवा समय पर लें।"
    followSuffix |-> <<32, 2340, 2325, 32, 2342, 2357, 2366, 32, 2360, 2350, 2351, 32, 2346,
        2352, 32, 2354, 2375, 2306, 2404>>,
    \* "खाना खाने के बाद लें।"
    takeAfterFood |-> <<2326, 2366, 2344, 2366, 32, 2326, 2366, 2344, 2375, 32, 2325, 2375, 32,
        2348, 2366, 2342, 32, 2354, 2375, 2306, 2404>>,
    \* "खाना खाने से पहले लें।"
    takeBeforeFood |-> <<2326, 2366, 2344, 2366, 32, 2326, 2366, 2344, 2375, 32, 2360, 2375,
        32, 2346, 2361, 2354, 2375, 32, 2354, 2375, 2306, 2404>>,
    \* "खाली पेट दवा न लें।"
    warningEmptyStomach |-> <<2326, 2366, 2354, 2368, 32, 2346, 2375, 2335, 32, 2342, 2357,
        2366, 32, 2344, 32, 2354, 2375, 2306, 2404>>,
    \* "सावधानी संबंधी निर्देश ध्यान से मानें।"
    warningGeneric |-> <<2360, 2366, 2357, 2343, 2366, 2344, 2368, 32, 2360, 2306, 2348, 2306,
        2343, 2368, 32, 2344, 2367, 2352, 2381, 2342, 2375, 2358, 32, 2343, 2381, 2351, 2366,
        2344, 32, 2360, 2375, 32, 2350, 2366, 2344, 2375, 2306, 2404>>,
    \* "पर्याप्त पानी पिएं।"
    hydrationTip |-> <<2346, 2352, 2381, 2351, 2366, 2346, 2381, 2340, 32, 2346, 2366, 2344,
        2368, 32, 2346, 2367, 2319, 2306, 2404>>,
    \* "लक्षण बढ़ें या दुष्प्रभाव हों तो तुरंत डॉक्टर से संपर्क करें।"
    generalAdvice |-> <<2354, 2325, 2381, 2359, 2339, 32, 2348, 2338, 2364, 2375, 2306, 32,
        2351, 2366, 32, 2342, 2369, 2359, 2381, 2346, 2381, 2352, 2349, 2366, 2357, 32, 2361,
        2379, 2306, 32, 2340, 2379, 32, 2340, 2369, 2352, 2306, 2340, 32, 2337, 2377, 2325,
        2381, 2335, 2352, 32, 2360, 2375, 32, 2360, 2306, 2346, 2352, 2381, 2325, 32, 2325,
        2352, 2375, 2306, 2404>> ]

\* prescriptionFallbackByLanguage.ta; usePrefix and useSuffix are the text of the
\* useDirective template around "${medicineName} ${dosage}", followPrefix and
\* followSuffix the text of followSchedule around "${duration}"
FallbackTa == [
    \* "மருந்து"
    defaultMedicine |-> <<2990, 2992, 3009, 2984, 3021, 2980, 3009>>,
    \* "மருத்துவர் கூறியபடி"
    defaultDosage |-> <<2990, 2992, 3009, 2980, 3021, 2980, 3009, 2997, 2992, 3021, 32, 2965,
        3010, 2993, 3007, 2991, 2986, 2975, 3007>>,
    \* "மருத்துவர் கூறும் வரை"
    defaultDuration |-> <<2990, 2992, 3009, 2980, 3021, 2980, 3009, 2997, 2992, 3021, 32, 2965,
        3010, 2993, 3009, 2990, 3021, 32, 2997, 2992, 3016>>,
    \* ""
    usePrefix |-> <<>>,
    \* " மருத்துவர் கூறியபடி எடுத்துக்கொள்ளவும்."
    useSuffix |-> <<32, 2990, 2992, 3009, 2980, 3021, 2980, 3009, 2997, 2992, 3021, 32, 2965,
        3010, 2993, 3007, 2991, 2986, 2975, 3007, 32, 2958, 2975, 3009, 2980, 3021, 2980, 3009,
        2965, 3021, 2965, 3018, 2995, 3021, 2995, 2997, 3009, 2990, 3021, 46>>,
    \* ""
    followPrefix |-> <<>>,
    \* " வரை மருந்தை நேரத்திற்கு எடுத்துக்கொள்ளவும்."
    followSuffix |-> <<32, 2997, 2992, 3016, 32, 2990, 2992, 3009, 2984, 3021, 2980, 3016, 32,
        2984, 3015, 2992, 2980, 3021, 2980, 3007, 2993, 3021, 2965, 3009, 32, 2958, 2975, 3009,
        2980, 3021, 2980, 3009, 2965, 3021, 2965, 3018, 2995, 3021, 2995, 2997, 3009, 2990,
        3021, 46>>,
    \* "உணவுக்குப் பிறகு எடுத்துக்கொள்ளவும்."
    takeAfterFood |-> <<2953, 2979, 2997, 3009, 2965, 3021, 2965, 3009, 2986, 3021, 32, 2986,
        3007, 2993, 2965, 3009, 32, 2958, 2975, 3009, 2980, 3021, 2980, 3009, 2965, 3021, 2965,
        3018, 2995, 3021, 2995, 2997, 3009, 2990, 3021, 46>>,
    \* "உணவுக்கு முன் எடுத்துக்கொள்ளவும்."
    takeBeforeFood |-> <<2953, 2979, 2997, 3009, 2965, 3021, 2965, 3009, 32, 2990, 3009, 2985,
        3021, 32, 2958, 2975, 3009, 2980, 3021, 2980, 3009, 2965, 3021, 2965, 3018, 2995, 3021,
        2995, 2997, 3009, 2990, 3021, 46>>,
    \* "வயிறு காலியாக இருக்கும்போது எடுத்துக்கொள்ள வேண்டாம்."
    warningEmptyStomach |-> <<2997, 2991, 3007, 2993, 3009, 32, 2965, 3006, 2994, 3007, 2991,
        3006, 2965, 32, 2951, 2992, 3009, 2965, 3021, 2965, 3009, 2990, 3021, 2986, 3019, 2980,
        3009, 32, 2958, 2975, 3009, 2980, 3021, 2980, 3009, 2965, 3021, 2965, 3018, 2995, 3021,
        2995, 32, 2997, 3015, 2979, 3021, 2975, 3006, 2990, 3021, 46>>,
    \* "எச்சரிக்கை வழிமுறைகளை கவனமாக பின்பற்றவும்."
    warningGeneric |-> <<2958, 2970, 3021, 2970, 2992, 3007, 2965, 3021, 2965, 3016, 32, 2997,
        2996, 3007, 2990, 3009, 2993, 3016, 2965, 2995, 3016, 32, 2965, 2997, 2985, 2990, 3006,
        2965, 32, 2986, 3007, 2985, 3021, 2986, 2993, 3021, 2993, 2997, 3009, 2990, 3021, 46>>,
    \* "அதிகமாக தண்ணீர் குடிக்கவும்."
    hydrationTip |-> <<2949, 2980, 3007, 2965, 2990, 3006, 2965, 32, 2980, 2979, 3021, 2979,
        3008, 2992, 3021, 32, 2965, 3009, 2975, 3007, 2965, 3021, 2965, 2997, 3009, 2990, 3021,
        46>>,
    \* "அறிகுறிகள் மோசமடைந்தால் அல்லது பக்கவிளைவுகள் இருந்தால் மருத்துவரை அணுகவும்."
    generalAdvice |-> <<2949, 2993, 3007, 2965, 3009, 2993, 3007, 2965, 2995, 3021, 32, 2990,
        3019, 2970, 2990, 2975, 3016, 2984, 3021, 2980, 3006, 2994, 3021, 32, 2949, 2994, 3021,
        2994, 2980, 3009, 32, 2986, 2965, 3021, 2965, 2997, 3007, 2995, 3016, 2997, 3009, 2965,
        2995, 3021, 32, 2951, 2992, 3009, 2984, 3021, 2980, 3006, 2994, 3021, 32, 2990, 2992,
        3009, 2980, 3021, 2980, 3009, 2997, 2992, 3016, 32, 2949, 2979, 3009, 2965, 2997, 3009,
        2990, 3021, 46>> ]

\* prescriptionFallbackByLanguage.bn; usePrefix and useSuffix are the text of the
\* useDirective template around "${medicineName} ${dosage}", followPrefix and
\* followSuffix the text of followSchedule around "${duration}"
FallbackBn == [
    \* "ওষুধ"
    defaultMedicine |-> <<2451, 2487, 2497, 2471>>,
    \* "ডাক্তারের নির্দেশ অনুযায়ী"
    defaultDosage |-> <<2465, 2494, 2453, 2509, 2468, 2494, 2480, 2503, 2480, 32, 2472, 2495,
        2480, 2509, 2470, 2503, 2486, 32, 2437, 2472, 2497, 2479, 2494, 2479, 2492, 2496>>,
    \* "ডাক্তারের পরামর্শ অনুযায়ী"
    defaultDuration |-> <<2465, 2494, 2453, 2509, 2468, 2494, 2480, 2503, 2480, 32, 2474, 2480,
        2494, 2478, 2480, 2509, 2486, 32, 2437, 2472, 2497, 2479, 2494, 2479, 2492, 2496>>,
    \* ""
    usePrefix |-> <<>>,
    \* " ডাক্তারের নির্দেশ অনুযায়ী সেবন করুন।"
    useSuffix |-> <<32, 2465, 2494, 2453, 2509, 2468, 2494, 2480, 2503, 2480, 32, 2472, 2495,
        2480, 2509, 2470, 2503, 2486, 32, 2437, 2472, 2497, 2479, 2494, 2479, 2492, 2496, 32,
        2488, 2503, 2476, 2472, 32, 2453, 2480, 2497, 2472, 2404>>,
    \* ""
    followPrefix |-> <<>>,
    \* " পর্যন্ত সময়মতো ওষুধ নিন।"
    followSuffix |-> <<32, 2474, 2480, 2509, 2479, 2472, 2509, 2468, 32, 2488, 2478, 2479,
        2492, 2478, 2468, 2507, 32, 2451, 2487, 2497, 2471, 32, 2472, 2495, 2472, 2404>>,
    \* "খাওয়ার পরে সেবন করুন।"
    takeAfterFood |-> <<2454, 2494, 2451, 2479, 2492, 2494, 2480, 32, 2474, 2480, 2503, 32,
        2488, 2503, 2476, 2472, 32, 2453, 2480, 2497, 2472, 2404>>,
    \* "খাওয়ার আগে সেবন করুন।"
    takeBeforeFood |-> <<2454, 2494, 2451, 2479, 2492, 2494, 2480, 32, 2438, 2455, 2503, 32,
        2488, 2503, 2476, 2472, 32, 2453, 2480, 2497, 2472, 2404>>,
    \* "খালি পেটে ওষুধ খাবেন না।"
    warningEmptyStomach |-> <<2454, 2494, 2482, 2495, 32, 2474, 2503, 2463, 2503, 32, 2451,
        2487, 2497, 2471, 32, 2454, 2494, 2476, 2503, 2472, 32, 2472, 2494, 2404>>,
    \* "সতর্কতার নির্দেশগুলি মেনে চলুন।"
    warningGeneric |-> <<2488, 2468, 2480, 2509, 2453, 2468, 2494, 2480, 32, 2472, 2495, 2480,
        2509, 2470, 2503, 2486, 2455, 2497, 2482, 2495, 32, 2478, 2503, 2472, 2503, 32, 2458,
        2482, 2497, 2472, 2404>>,
    \* "পর্যাপ্ত পানি পান করুন।"
    hydrationTip |-> <<2474, 2480, 2509, 2479, 2494, 2474, 2509, 2468, 32, 2474, 2494, 2472,
        2495, 32, 2474, 2494, 2472, 32, 2453, 2480, 2497, 2472, 2404>>,
    \* "লক্ষণ বাড়লে বা পার্শ্বপ্রতিক্রিয়া হলে দ্রুত ডাক্তারের সঙ্গে যোগাযোগ করুন।"
    generalAdvice |-> <<2482, 2453, 2509, 2487, 2467, 32, 2476, 2494, 2465, 2492, 2482, 2503,
        32, 2476, 2494, 32, 2474, 2494, 2480, 2509, 2486, 2509, 2476, 2474, 2509, 2480, 2468,
        2495, 2453, 2509, 2480, 2495, 2479, 2492, 2494, 32, 2489, 2482, 2503, 32, 2470, 2509,
        2480, 2497, 2468, 32, 2465, 2494, 2453, 2509, 2468, 2494, 2480, 2503, 2480, 32, 2488,
        2457, 2509, 2455, 2503, 32, 2479, 2507, 2455, 2494, 2479, 2507, 2455, 32, 2453, 2480,
        2497, 2472, 2404>> ]

\* prescriptionFallbackByLanguage
prescriptionFallbackByLanguage ==
    [en |-> FallbackEn, hi |-> FallbackHi, ta |-> FallbackTa, bn |-> FallbackBn]

----------------------------------------------------------------------------
(* Prescription simplifier: the response schema and the language alignment *)

\* the member of prescriptionLanguageSchema a JSON value spells, "" when it spells none
LanguageOf(v) ==
    IF v.t = "string" /\ \E l \in prescriptionLanguageSchema : LanguageText[l] = v.s
    THEN CHOOSE l \in prescriptionLanguageSchema : LanguageText[l] = v.s
    ELSE ""

\* the member of prescriptionTimingSlotSchema a JSON value spells, "" when it spells none
SlotOf(v) ==
    IF v.t = "string" /\ \E slot \in prescriptionTimingSlotSchema : SlotText[slot] = v.s
    THEN CHOOSE slot \in prescriptionTimingSlotSchema : SlotText[slot] = v.s
    ELSE ""

\* z.array(z.string().min(1).max(220)).max(most)
IsTextArray(v, most) ==
    /\ v.t = "array"
    /\ Len(v.items) <= most
    /\ \A i \in 1..Len(v.items) : IsStringOf(v.items[i], 1, 220)

\* the strings of a JSON array of strings
TextsOf(v) == [i \in 1..Len(v.items) |-> v.items[i].s]

\* the keys of a medicine
MedicineFields == {"medicineName", "dosage", "duration", "timingSlots", "instructions"}

\* prescriptionSimplifiedMedicineSchema, the check
prescriptionSimplifiedMedicineSchema(v) ==
    /\ v.t = "object"
    /\ DOMAIN v.f = MedicineFields
    /\ IsStringOf(v.f["medicineName"], 1, 160)
    /\ IsStringOf(v.f["dosage"], 1, 160)
    /\ IsStringOf(v.f["duration"], 1, 160)
    /\ v.f["timingSlots"].t = "array"
    /\ Len(v.f["timingSlots"].items) >= 1
    /\ Len(v.f["timingSlots"].items) <= 8
    /\ \A i \in 1..Len(v.f["timingSlots"].items) : SlotOf(v.f["timingSlots"].items[i]) # ""
    /\ IsTextArray(v.f["instructions"], 8)

\* the parsed value of a medicine that passed the check
MedicineData(v) ==
    [medicineName |-> v.f["medicineName"].s,
     dosage |-> v.f["dosage"].s,
     duration |-> v.f["duration"].s,
     timingSlots |-> [i \in 1..Len(v.f["timingSlots"].items) |->
                         SlotOf(v.f["timingSlots"].items[i])],
     instructions |-> TextsOf(v.f["instructions"])]

\* the keys of a summary
SummaryFields == {"languageCode", "languageLabel", "doctorExplanation", "medicines",
                  "warnings", "hydrationTips", "generalAdvice"}

\* prescriptionSimplifyResponseSchema.safeParse
prescriptionSimplifyResponseSchema(v) ==
    IF /\ v.t = "object"
       /\ DOMAIN v.f = SummaryFields
       /\ LanguageOf(v.f["languageCode"]) # ""
       /\ IsStringOf(v.f["languageLabel"], 2, 60)
       /\ IsStringOf(v.f["doctorExplanation"], 5, 1200)
       /\ v.f["medicines"].t = "array"
       /\ Len(v.f["medicines"].items) >= 1
       /\ Len(v.f["medicines"].items) <= 12
       /\ \A i \in 1..Len(v.f["medicines"].items) :
              prescriptionSimplifiedMedicineSchema(v.f["medicines"].items[i])
       /\ IsTextArray(v.f["warnings"], 10)
       /\ IsTextArray(v.f["hydrationTips"], 8)
       /\ IsTextArray(v.f["generalAdvice"], 10)
    THEN [success |-> TRUE,
          data |-> [languageCode |-> LanguageOf(v.f["languageCode"]),
                    languageLabel |-> v.f["languageLabel"].s,
                    doctorExplanation |-> v.f["doctorExplanation"].s,
                    medicines |-> [i \in 1..Len(v.f["medicines"].items) |->
                                      MedicineData(v.f["medicines"].items[i])],
                    warnings |-> TextsOf(v.f["warnings"]),
                    hydrationTips |-> TextsOf(v.f["hydrationTips"]),
                    generalAdvice |-> TextsOf(v.f["generalAdvice"])]]
    ELSE [success |-> FALSE]

\* Array.prototype.flatMap over the instructions of the medicines
RECURSIVE FlatInstructions(_)
FlatInstructions(medicines) ==
    IF Len(medicines) = 0 THEN <<>>
    ELSE medicines[1].instructions \o FlatInstructions(Tail(medicines))

\* prescriptionNarrativeText: the explanatory strings joined by a space, white space
\* collapsed, trimmed
prescriptionNarrativeText(summary) ==
    trim(ReplaceSpaceRuns(Join(<<summary.doctorExplanation>>
                                 \o FlatInstructions(summary.medicines)
                                 \o summary.warnings
                                 \o summary.hydrationTips
                                 \o summary.generalAdvice, <<32>>)))

\* the code unit is in the script block of the language
InScript(c, language) ==
    /\ c >= prescriptionScriptRegexByLanguage[language].first
    /\ c <= prescriptionScriptRegexByLanguage[language].last

\* (narrative.match(scriptRegex) ?? []).length. The script expressions carry no g flag,
\* so match returns the first match alone: an array of length 1, or null.
ScriptCount(narrative, language) ==
    IF \E i \in 1..Len(narrative) : InScript(narrative[i], language) THEN 1 ELSE 0

\* (narrative.match(/[A-Za-z]/g) ?? []).length
LatinCount(narrative) == Cardinality({i \in 1..Len(narrative) : IsLatin(narrative[i])})

\* the check without its zero-script line (a mutation of isPrescriptionLanguageAligned)
isPrescriptionLanguageAligned_NoScriptLine(summary, language) ==
    \/ language = "en"
    \/ \E narrative \in {prescriptionNarrativeText(summary)} :
           5 * LatinCount(narrative) <= 6 * ScriptCount(narrative, language)

\* the check without its English shortcut: an "en" target has no script expression
\* and is sent to the retry (a mutation of isPrescriptionLanguageAligned)
isPrescriptionLanguageAligned_EnglishToo(summary, language) ==
    /\ language # "en"
    /\ \E narrative \in {prescriptionNarrativeText(summary)} :
           /\ ScriptCount(narrative, language) # 0
           /\ 5 * LatinCount(narrative) <= 6 * ScriptCount(narrative, language)

\* isPrescriptionLanguageAligned; latinCount > scriptCount * 1.2 is compared in fifths
isPrescriptionLanguageAligned(summary, language) ==
    \/ language = "en"
    \/ \E narrative \in {prescriptionNarrativeText(summary)} :
           /\ ScriptCount(narrative, language) # 0
           /\ 5 * LatinCount(narrative) <= 6 * ScriptCount(narrative, language)

\* the summary with the language fields the model wrote (a mutation of
\* coercePrescriptionLanguage)
coercePrescriptionLanguage_Keep(summary, language) == summary

\* coercePrescriptionLanguage
coercePrescriptionLanguage(summary, language) ==
    [summary EXCEPT !.languageCode = language,
                    !.languageLabel = prescriptionLanguageLabels[language]]

----------------------------------------------------------------------------
(* Prescription simplifier: the regular expressions of the extractor       *)

\* the result of a regular expression that did not match
NoMatch == [matched |-> FALSE]

\* first index >= i of s whose character fails P (Len(s)+1 when there is none): the end
\* of a greedy run of P
RunEnd(s, i, P(_)) == MinOf({j \in i..(Len(s) + 1) : j = Len(s) + 1 \/ ~P(s[j])})

\* \b at the gap before index i of s: a word character on exactly one side
WordBoundary(s, i) ==
    (i > 1 /\ i - 1 <= Len(s) /\ IsWordChar(s[i - 1])) # (i >= 1 /\ i <= Len(s) /\ IsWordChar(s[i]))

\* the literal occurs in s between two \b
HasWord(s, lit) ==
    \E t \in {s}, l \in {lit} :
        \E i \in 1..(Len(t) - Len(l) + 1) :
            MatchLit(t, i, l) /\ WordBoundary(t, i) /\ WordBoundary(t, i + Len(l))

\* some literal of the set occurs in s between two \b
AnyWord(s, lits) == \E t \in {s} : \E l \in lits : HasWord(t, l)

\* end (exclusive) of the first alternative of alts that matches at index u ignoring
\* case, with a \b after it when bounded; 0 when none matches
AltEnd(s, u, alts, bounded) ==
    With({p \in 1..Len(alts) :
            MatchLitI(s, u, alts[p]) /\ (bounded => WordBoundary(s, u + Len(alts[p])))},
         LAMBDA ok : IF ok = {} THEN 0 ELSE u + Len(alts[MinOf(ok)]))

\* the leftmost match of a pattern tried at every index of s
Leftmost(s, MatchAt(_, _)) ==
    With(s, LAMBDA t :
        With({i \in 1..Len(t) : MatchAt(t, i).matched}, LAMBDA starts :
            IF starts = {} THEN NoMatch ELSE MatchAt(t, MinOf(starts))))

\* (?:take|tab(?:let)?|capsule|cap|syrup)? in the order the alternatives are tried, the
\* empty one last
MedicinePrefixes == <<
    <<116, 97, 107, 101>>,  \* "take"
    <<116, 97, 98, 108, 101, 116>>,  \* "tablet"
    <<116, 97, 98>>,  \* "tab"
    <<99, 97, 112, 115, 117, 108, 101>>,  \* "capsule"
    <<99, 97, 112>>,  \* "cap"
    <<115, 121, 114, 117, 112>>,  \* "syrup"
    <<>> >>

\* end (exclusive) of [A-Za-z][A-Za-z0-9-]* at index i, 0 when s[i] is no letter
WordEnd(s, i) ==
    IF i >= 1 /\ i <= Len(s) /\ IsLatin(s[i])
    THEN RunEnd(s, i + 1, LAMBDA c : IsLatin(c) \/ IsDigit(c) \/ c = 45)
    ELSE 0

\* end of (?:\s+[A-Za-z][A-Za-z0-9-]*){0,k} after a word that ends before index e. The
\* repetition is greedy, and giving a word back leaves a letter where \s+\d+ wants a
\* digit, so the longest repetition is the only one that can match.
RECURSIVE MoreWords(_, _, _)
MoreWords(s, e, k) ==
    IF k = 0 THEN e
    ELSE With(SkipSpaces(s, e), LAMBDA j :
             IF j = e THEN e
             ELSE With(WordEnd(s, j), LAMBDA w : IF w = 0 THEN e ELSE MoreWords(s, w, k - 1)))

\* \s+(\d+\s?(?:mg|ml|mcg|g)) at index e: from and to delimit the group
DoseAt(s, e) ==
    With(SkipSpaces(s, e), LAMBDA d :
        With(SkipDigits(s, d), LAMBDA n :
            IF d = e \/ n = d THEN NoMatch
            ELSE With(AltEnd(s, IF n <= Len(s) /\ IsSpace(s[n]) THEN n + 1 ELSE n,
                             << <<109, 103>>, <<109, 108>>, <<109, 99, 103>>, <<103>> >>, FALSE),  \* "mg", "ml", "mcg", "g"
                      LAMBDA z : IF z = 0 THEN NoMatch
                                 ELSE [matched |-> TRUE, from |-> d, to |-> z - 1])))

\* the medicine pattern tried at index i with one alternative of the prefix:
\*   (?:take|tab(?:let)?|capsule|cap|syrup)?\s*
\*   ([A-Za-z][A-Za-z0-9-]*(?:\s+[A-Za-z][A-Za-z0-9-]*){0,3})\s+(\d+\s?(?:mg|ml|mcg|g))
\* g1 and g2 are the two groups
MedicineMatchWith(s, i, prefix) ==
    IF ~MatchLitI(s, i, prefix) THEN NoMatch
    ELSE With(SkipSpaces(s, i + Len(prefix)), LAMBDA b :
        With(WordEnd(s, b), LAMBDA w :
            IF w = 0 THEN NoMatch
            ELSE With(MoreWords(s, w, 3), LAMBDA e :
                With(DoseAt(s, e), LAMBDA dose :
                    IF ~dose.matched THEN NoMatch
                    ELSE [matched |-> TRUE, g1 |-> SubSeq(s, b, e - 1),
                          g2 |-> SubSeq(s, dose.from, dose.to)]))))

\* the medicine pattern tried at index i: the first alternative of the prefix with
\* which the rest matches
MedicineMatchAt(s, i) ==
    With({p \in 1..Len(MedicinePrefixes) : MedicineMatchWith(s, i, MedicinePrefixes[p]).matched},
         LAMBDA ok : IF ok = {} THEN NoMatch
                     ELSE MedicineMatchWith(s, i, MedicinePrefixes[MinOf(ok)]))

\* name.replace(/^(take|tab(?:let)?|capsule|cap|syrup)\s+/i, "")
StripMedicinePrefix(name) ==
    With(name, LAMBDA g :
        With({p \in 1..(Len(MedicinePrefixes) - 1) :
                /\ MatchLitI(g, 1, MedicinePrefixes[p])
                /\ SkipSpaces(g, Len(MedicinePrefixes[p]) + 1) > Len(MedicinePrefixes[p]) + 1},
             LAMBDA ok :
                IF ok = {} THEN g
                ELSE SubSeq(g, SkipSpaces(g, Len(MedicinePrefixes[MinOf(ok)]) + 1), Len(g))))

\* /\bfor\s+(\d+\s*(?:day|days|week|weeks|month|months))\b/i tried at index i
DurationMatchAt(s, i) ==
    IF ~(WordBoundary(s, i) /\ MatchLitI(s, i, <<102, 111, 114>>)) THEN NoMatch  \* "for"
    ELSE With(SkipSpaces(s, i + 3), LAMBDA d :
        With(SkipDigits(s, d), LAMBDA n :
            IF d = i + 3 \/ n = d THEN NoMatch
            ELSE With(AltEnd(s, SkipSpaces(s, n),
                             << <<100, 97, 121>>, <<100, 97, 121, 115>>, <<119, 101, 101, 107>>, <<119, 101, 101, 107, 115>>, <<109, 111, 110, 116, 104>>, <<109, 111, 110, 116, 104, 115>> >>, TRUE),  \* "day", "days", "week", "weeks", "month", "months"
                      LAMBDA z : IF z = 0 THEN NoMatch
                                 ELSE [matched |-> TRUE, g1 |-> SubSeq(s, d, z - 1)])))

\* end (exclusive) of the first frequency alternative tried at index i, 0 when none:
\*   \b(?:once|twice|thrice)\s+(?:daily|a day|per day)\b
FrequencyWordsEnd(s, i) ==
    With(AltEnd(s, i, << <<111, 110, 99, 101>>, <<116, 119, 105, 99, 101>>, <<116, 104, 114, 105, 99, 101>> >>, FALSE), LAMBDA w :  \* "once", "twice", "thrice"
        IF w = 0 \/ SkipSpaces(s, w) = w THEN 0
        ELSE AltEnd(s, SkipSpaces(s, w), << <<100, 97, 105, 108, 121>>, <<97, 32, 100, 97, 121>>, <<112, 101, 114, 32, 100, 97, 121>> >>, TRUE))  \* "daily", "a day", "per day"

\* end (exclusive) of the second frequency alternative tried at index i, 0 when none:
\*   \b\d+\s*(?:times?|x)\s*(?:a|per)?\s*day\b
\* Each greedy piece is followed by a piece that cannot start where it gave way, so the
\* greedy path decides.
FrequencyCountEnd(s, i) ==
    With(SkipDigits(s, i), LAMBDA n :
        IF n = i THEN 0
        ELSE With(AltEnd(s, SkipSpaces(s, n), << <<116, 105, 109, 101, 115>>, <<116, 105, 109, 101>>, <<120>> >>, FALSE), LAMBDA t :  \* "times", "time", "x"
            IF t = 0 THEN 0
            ELSE With(SkipSpaces(s, t), LAMBDA a :
                With(AltEnd(s, a, << <<97>>, <<112, 101, 114>> >>, FALSE), LAMBDA p :  \* "a", "per"
                    AltEnd(s, SkipSpaces(s, IF p = 0 THEN a ELSE p), << <<100, 97, 121>> >>, TRUE)))))  \* "day"

\* end (exclusive) of the third frequency alternative tried at index i, 0 when none:
\*   \b(?:od|bd|bid|tid)\b
FrequencyCodeEnd(s, i) == AltEnd(s, i, << <<111, 100>>, <<98, 100>>, <<98, 105, 100>>, <<116, 105, 100>> >>, TRUE)  \* "od", "bd", "bid", "tid"

\* the frequency pattern tried at index i; all is match[0]
FrequencyMatchAt(s, i) ==
    IF ~WordBoundary(s, i) THEN NoMatch
    ELSE With(<<FrequencyWordsEnd(s, i), FrequencyCountEnd(s, i), FrequencyCodeEnd(s, i)>>,
              LAMBDA ends :
                 With({k \in 1..3 : ends[k] # 0}, LAMBDA ok :
                     IF ok = {} THEN NoMatch
                     ELSE [matched |-> TRUE, all |-> SubSeq(s, i, ends[MinOf(ok)] - 1)]))

\* /\bqty(?:uantity)?\s*:?\s*(\d+)\b/i tried at index i
QtyMatchAt(s, i) ==
    IF ~(WordBoundary(s, i) /\ MatchLitI(s, i, <<113, 116, 121>>)) THEN NoMatch  \* "qty"
    ELSE With(SkipSpaces(s, IF MatchLitI(s, i + 3, <<117, 97, 110, 116, 105, 116, 121>>) THEN i + 10 ELSE i + 3),  \* "uantity"
              LAMBDA c :
        With(SkipSpaces(s, IF c <= Len(s) /\ s[c] = 58 THEN c + 1 ELSE c), LAMBDA d :
            With(SkipDigits(s, d), LAMBDA n :
                IF n = d \/ ~WordBoundary(s, n) THEN NoMatch
                ELSE [matched |-> TRUE, g1 |-> SubSeq(s, d, n - 1)])))

\* /\bif\s+[^.]+/i tried at index i. When the white space runs up to a "." or the end,
\* \s+ gives back its last character to [^.]+ if it has two or more.
ConditionMatchAt(s, i) ==
    IF ~(WordBoundary(s, i) /\ MatchLitI(s, i, <<105, 102>>)) THEN NoMatch  \* "if"
    ELSE With(SkipSpaces(s, i + 2), LAMBDA b :
        IF b = i + 2 THEN NoMatch
        ELSE IF b <= Len(s) /\ s[b] # 46
        THEN [matched |-> TRUE, all |-> SubSeq(s, i, RunEnd(s, b, LAMBDA c : c # 46) - 1)]
        ELSE IF b - (i + 2) >= 2 THEN [matched |-> TRUE, all |-> SubSeq(s, i, b - 1)]
        ELSE NoMatch)

\* /\binstructions?\s*:\s*([^.;]+)/i tried at index i. When the white space after the
\* colon runs up to ".", ";" or the end, \s* gives back its last character to the group.
ExplicitInstructionMatchAt(s, i) ==
    IF ~(WordBoundary(s, i) /\ MatchLitI(s, i, <<105, 110, 115, 116, 114, 117, 99, 116, 105, 111, 110>>)) THEN NoMatch  \* "instruction"
    ELSE With(SkipSpaces(s, IF MatchLitI(s, i + 11, <<115>>) THEN i + 12 ELSE i + 11), LAMBDA c :  \* "s"
        IF ~(c <= Len(s) /\ s[c] = 58) THEN NoMatch
        ELSE With(SkipSpaces(s, c + 1), LAMBDA j :
            IF j <= Len(s) /\ s[j] \notin {46, 59}
            THEN [matched |-> TRUE,
                  g1 |-> SubSeq(s, j, RunEnd(s, j, LAMBDA x : x \notin {46, 59}) - 1)]
            ELSE IF j > c + 1 THEN [matched |-> TRUE, g1 |-> SubSeq(s, j - 1, j - 1)]
            ELSE NoMatch))

\* /\b\d+\s*(?:tablet|tab|capsule|cap|ml|drop|drops)\b/i tried at index i
TabletCountMatchAt(s, i) ==
    IF ~WordBoundary(s, i) THEN NoMatch
    ELSE With(SkipDigits(s, i), LAMBDA n :
        IF n = i THEN NoMatch
        ELSE With(AltEnd(s, SkipSpaces(s, n),
                         << <<116, 97, 98, 108, 101, 116>>, <<116, 97, 98>>, <<99, 97, 112, 115, 117, 108, 101>>, <<99, 97, 112>>, <<109, 108>>, <<100, 114, 111, 112>>, <<100, 114, 111, 112, 115>> >>,  \* "tablet", "tab", "capsule", "cap", "ml", "drop", "drops"
                         TRUE),
                  LAMBDA z : IF z = 0 THEN NoMatch
                             ELSE [matched |-> TRUE, all |-> SubSeq(s, i, z - 1)]))

\* /\bdrink\b.*\bwater\b|\bhydrat/ ; the sanitized text holds no line terminator
HydrationTest(s) ==
    \E t \in {s} :
        \/ \E i \in 1..Len(t) :
              /\ MatchLit(t, i, <<100, 114, 105, 110, 107>>)  \* "drink"
              /\ WordBoundary(t, i) /\ WordBoundary(t, i + 5)
              /\ \E j \in (i + 5)..Len(t) :
                     /\ MatchLit(t, j, <<119, 97, 116, 101, 114>>)  \* "water"
                     /\ WordBoundary(t, j) /\ WordBoundary(t, j + 5)
        \/ \E i \in 1..Len(t) : WordBoundary(t, i) /\ MatchLit(t, i, <<104, 121, 100, 114, 97, 116>>)  \* "hydrat"

\* the array with the first occurrence of each element kept: Array.from(new Set(items))
RECURSIVE Unique(_, _)
Unique(items, seen) ==
    IF Len(items) = 0 THEN <<>>
    ELSE IF Head(items) \in seen THEN Unique(Tail(items), seen)
    ELSE <<Head(items)>> \o Unique(Tail(items), seen \cup {Head(items)})

\* items.map((value) => value.trim()).filter(Boolean)
TrimmedNonEmpty(items) ==
    SelectSeq([i \in 1..Len(items) |-> trim(items[i])], LAMBDA v : Len(v) > 0)

----------------------------------------------------------------------------
(* Prescription simplifier: the deterministic extractor                    *)

\* buildPrescriptionTimingSlot
buildPrescriptionTimingSlot(part, meal) ==
    IF part = "MORNING"
    THEN (IF meal = "BEFORE_FOOD" THEN "MORNING_BEFORE_FOOD" ELSE "MORNING_AFTER_FOOD")
    ELSE IF part = "AFTERNOON"
    THEN (IF meal = "BEFORE_FOOD" THEN "AFTERNOON_BEFORE_FOOD" ELSE "AFTERNOON_AFTER_FOOD")
    ELSE (IF meal = "BEFORE_FOOD" THEN "NIGHT_BEFORE_FOOD" ELSE "NIGHT_AFTER_FOOD")

\* the meal relation with before-food tested first (a mutation of TimingMeal)
TimingMeal_BeforeFirst(normalized) ==
    IF AnyWord(normalized, { <<98, 101, 102, 111, 114, 101, 32, 102, 111, 111, 100>>, <<98, 101, 102, 111, 114, 101, 32, 109, 101, 97, 108>>, <<98, 101, 102, 111, 114, 101, 32, 109, 101, 97, 108, 115>>,  \* "before food", "before meal", "before meals"
                             <<101, 109, 112, 116, 121, 32, 115, 116, 111, 109, 97, 99, 104>> })  \* "empty stomach"
    THEN "BEFORE_FOOD"
    ELSE IF AnyWord(normalized, { <<97, 102, 116, 101, 114, 32, 102, 111, 111, 100>>, <<97, 102, 116, 101, 114, 32, 109, 101, 97, 108>>, <<97, 102, 116, 101, 114, 32, 109, 101, 97, 108, 115>>, <<112, 111, 115, 116, 32, 109, 101, 97, 108>> })  \* "after food", "after meal", "after meals", "post meal"
    THEN "AFTER_FOOD"
    ELSE "NONE"

\* the meal relation extractTimingSlotsFromText reads: after-food is tested first
TimingMeal(normalized) ==
    IF AnyWord(normalized, { <<97, 102, 116, 101, 114, 32, 102, 111, 111, 100>>, <<97, 102, 116, 101, 114, 32, 109, 101, 97, 108>>, <<97, 102, 116, 101, 114, 32, 109, 101, 97, 108, 115>>, <<112, 111, 115, 116, 32, 109, 101, 97, 108>> })  \* "after food", "after meal", "after meals", "post meal"
    THEN "AFTER_FOOD"
    ELSE IF AnyWord(normalized, { <<98, 101, 102, 111, 114, 101, 32, 102, 111, 111, 100>>, <<98, 101, 102, 111, 114, 101, 32, 109, 101, 97, 108>>, <<98, 101, 102, 111, 114, 101, 32, 109, 101, 97, 108, 115>>,  \* "before food", "before meal", "before meals"
                                  <<101, 109, 112, 116, 121, 32, 115, 116, 111, 109, 97, 99, 104>> })  \* "empty stomach"
    THEN "BEFORE_FOOD"
    ELSE "NONE"

\* the day parts named in the text, in the order morning, afternoon, night
NamedDayParts(normalized) ==
    (IF HasWord(normalized, <<109, 111, 114, 110, 105, 110, 103>>) THEN <<"MORNING">> ELSE <<>>)  \* "morning"
    \o (IF AnyWord(normalized, { <<97, 102, 116, 101, 114, 110, 111, 111, 110>>, <<110, 111, 111, 110>> }) THEN <<"AFTERNOON">> ELSE <<>>)  \* "afternoon", "noon"
    \o (IF AnyWord(normalized, { <<110, 105, 103, 104, 116>>, <<101, 118, 101, 110, 105, 110, 103>> }) THEN <<"NIGHT">> ELSE <<>>)  \* "night", "evening"

\* the day parts a frequency stands for when none is named
FrequencyDayParts(normalized) ==
    IF AnyWord(normalized, { <<116, 104, 114, 105, 99, 101, 32, 100, 97, 105, 108, 121>>, <<116, 104, 114, 101, 101, 32, 116, 105, 109, 101, 115, 32, 100, 97, 105, 108, 121>>, <<116, 104, 114, 101, 101, 32, 116, 105, 109, 101, 115, 32, 97, 32, 100, 97, 121>>, <<116, 105, 100>> })  \* "thrice daily", "three times daily", "three times a day", "tid"
    THEN <<"MORNING", "AFTERNOON", "NIGHT">>
    ELSE IF AnyWord(normalized, { <<116, 119, 105, 99, 101, 32, 100, 97, 105, 108, 121>>, <<116, 119, 111, 32, 116, 105, 109, 101, 115, 32, 100, 97, 105, 108, 121>>, <<116, 119, 111, 32, 116, 105, 109, 101, 115, 32, 97, 32, 100, 97, 121>>, <<98, 105, 100>> })  \* "twice daily", "two times daily", "two times a day", "bid"
    THEN <<"MORNING", "NIGHT">>
    ELSE IF AnyWord(normalized, { <<111, 110, 99, 101, 32, 100, 97, 105, 108, 121>>, <<111, 110, 99, 101, 32, 97, 32, 100, 97, 121>>, <<111, 100>> })  \* "once daily", "once a day", "od"
    THEN <<"MORNING">>
    ELSE <<>>

\* the slots with no UNSPECIFIED when none is derived (a mutation of
\* extractTimingSlotsFromText)
extractTimingSlotsFromText_NoDefault(text) ==
    With(toLowerCase(text), LAMBDA normalized :
        IF AnyWord(normalized, { <<97, 115, 32, 110, 101, 101, 100, 101, 100>>, <<119, 104, 101, 110, 32, 110, 101, 101, 100, 101, 100>>, <<115, 111, 115>> })  \* "as needed", "when needed", "sos"
        THEN <<"AS_NEEDED">>
        ELSE With(TimingMeal(normalized), LAMBDA meal :
            With(IF Len(NamedDayParts(normalized)) # 0 THEN NamedDayParts(normalized)
                 ELSE FrequencyDayParts(normalized), LAMBDA parts :
                With([i \in 1..Len(parts) |-> buildPrescriptionTimingSlot(parts[i], meal)]
                       \o (IF AnyWord(normalized, { <<98, 101, 102, 111, 114, 101, 32, 98, 101, 100>>, <<98, 101, 100, 116, 105, 109, 101>> })  \* "before bed", "bedtime"
                           THEN <<"BEDTIME">> ELSE <<>>),
                     LAMBDA slots :
                        Unique(slots, {}))))) 

\* extractTimingSlotsFromText
extractTimingSlotsFromText(text) ==
    With(toLowerCase(text), LAMBDA normalized :
        IF AnyWord(normalized, { <<97, 115, 32, 110, 101, 101, 100, 101, 100>>, <<119, 104, 101, 110, 32, 110, 101, 101, 100, 101, 100>>, <<115, 111, 115>> })  \* "as needed", "when needed", "sos"
        THEN <<"AS_NEEDED">>
        ELSE With(TimingMeal(normalized), LAMBDA meal :
            With(IF Len(NamedDayParts(normalized)) # 0 THEN NamedDayParts(normalized)
                 ELSE FrequencyDayParts(normalized), LAMBDA parts :
                With([i \in 1..Len(parts) |-> buildPrescriptionTimingSlot(parts[i], meal)]
                       \o (IF AnyWord(normalized, { <<98, 101, 102, 111, 114, 101, 32, 98, 101, 100>>, <<98, 101, 100, 116, 105, 109, 101>> })  \* "before bed", "bedtime"
                           THEN <<"BEDTIME">> ELSE <<>>),
                     LAMBDA slots :
                        IF Len(slots) = 0 THEN <<"UNSPECIFIED">> ELSE Unique(slots, {}))))) 

\* the warnings of the fallback: the empty-stomach warning, else the generic one
FallbackWarnings(lower, fallbackText) ==
    IF AnyWord(lower, { <<101, 109, 112, 116, 121, 32, 115, 116, 111, 109, 97, 99, 104>>, <<97, 118, 111, 105, 100, 32, 101, 109, 112, 116, 121, 32, 115, 116, 111, 109, 97, 99, 104>> })  \* "empty stomach", "avoid empty stomach"
    THEN <<fallbackText.warningEmptyStomach>>
    ELSE IF AnyWord(lower, { <<100, 111, 32, 110, 111, 116>>, <<100, 111, 110, 39, 116>>, <<97, 118, 111, 105, 100>> })  \* "do not", "don't", "avoid"
    THEN <<fallbackText.warningGeneric>>
    ELSE <<>>

\* the instructions of the fallback in the order they are pushed, before the trim and
\* the removal of empty and repeated entries
FallbackInstructions(text, lower, fallbackText) ==
    With(Leftmost(text, FrequencyMatchAt), LAMBDA frequencyMatch :
    With(Leftmost(text, QtyMatchAt), LAMBDA qtyMatch :
    With(Leftmost(text, ConditionMatchAt), LAMBDA conditionMatch :
    With(Leftmost(text, ExplicitInstructionMatchAt), LAMBDA explicitInstructionMatch :
    With(Leftmost(text, TabletCountMatchAt), LAMBDA tabletCountMatch :
        (IF AnyWord(lower, { <<97, 102, 116, 101, 114, 32, 102, 111, 111, 100>>, <<97, 102, 116, 101, 114, 32, 109, 101, 97, 108>>, <<97, 102, 116, 101, 114, 32, 109, 101, 97, 108, 115>> })  \* "after food", "after meal", "after meals"
         THEN <<fallbackText.takeAfterFood>> ELSE <<>>)
        \o (IF AnyWord(lower, { <<98, 101, 102, 111, 114, 101, 32, 102, 111, 111, 100>>, <<98, 101, 102, 111, 114, 101, 32, 109, 101, 97, 108>>, <<98, 101, 102, 111, 114, 101, 32, 109, 101, 97, 108, 115>> })  \* "before food", "before meal", "before meals"
            THEN <<fallbackText.takeBeforeFood>> ELSE <<>>)
        \o (IF frequencyMatch.matched THEN <<trim(frequencyMatch.all)>> ELSE <<>>)
        \o (IF qtyMatch.matched THEN << <<81, 116, 121, 32>> \o qtyMatch.g1>> ELSE <<>>)  \* "Qty "
        \o (IF conditionMatch.matched THEN <<trim(conditionMatch.all)>> ELSE <<>>)
        \o (IF explicitInstructionMatch.matched
            THEN <<trim(explicitInstructionMatch.g1)>> ELSE <<>>)
        \o (IF tabletCountMatch.matched THEN <<trim(tabletCountMatch.all)>> ELSE <<>>))))))

\* fallbackText.useDirective(medicineName, dosage)
useDirective(fallbackText, medicineName, dosage) ==
    fallbackText.usePrefix \o medicineName \o <<32>> \o dosage \o fallbackText.useSuffix

\* fallbackText.followSchedule(duration)
followSchedule(fallbackText, duration) ==
    fallbackText.followPrefix \o duration \o fallbackText.followSuffix

\* value || fallback that gives the value only before the first model call of the
\* process (a mutation of OrElse)
OrElse_Once(value, default) == IF Len(value) > 0 /\ modelCalls = 0 THEN value ELSE default

\* value || fallback for strings: the empty string is falsy
OrElse(value, default) == IF Len(value) > 0 THEN value ELSE default

\* fallbackPrescriptionSummary: the summary built from the text alone
fallbackPrescriptionSummary(input) ==
    With(sanitizeTriageText(input.text), LAMBDA text :
    With(toLowerCase(text), LAMBDA lower :
    With(prescriptionFallbackByLanguage[input.language], LAMBDA fallbackText :
    With(Leftmost(text, MedicineMatchAt), LAMBDA medicineMatch :
    With(IF medicineMatch.matched
         THEN OrElse(trim(StripMedicinePrefix(medicineMatch.g1)), fallbackText.defaultMedicine)
         ELSE fallbackText.defaultMedicine, LAMBDA medicineName :
    With(IF medicineMatch.matched
         THEN OrElse(trim(ReplaceSpaceRuns(medicineMatch.g2)), fallbackText.defaultDosage)
         ELSE fallbackText.defaultDosage, LAMBDA dosage :
    With(Leftmost(lower, DurationMatchAt), LAMBDA durationMatch :
    With(IF durationMatch.matched THEN OrElse(durationMatch.g1, fallbackText.defaultDuration)
         ELSE fallbackText.defaultDuration, LAMBDA duration :
    With(Unique(TrimmedNonEmpty(FallbackInstructions(text, lower, fallbackText)), {}),
         LAMBDA dedupedInstructions :
        [languageCode |-> input.language,
         languageLabel |-> prescriptionLanguageLabels[input.language],
         doctorExplanation |->
            Join(SelectSeq(<<useDirective(fallbackText, medicineName, dosage),
                             followSchedule(fallbackText, duration),
                             IF Len(dedupedInstructions) > 0 THEN dedupedInstructions[1]
                             ELSE <<>> >>,
                           LAMBDA segment : Len(segment) > 0),
                 <<32>>),
         medicines |-> << [medicineName |-> medicineName,
                           dosage |-> dosage,
                           duration |-> duration,
                           timingSlots |-> extractTimingSlotsFromText(lower),
                           instructions |-> dedupedInstructions] >>,
         warnings |-> FallbackWarnings(lower, fallbackText),
         hydrationTips |-> IF HydrationTest(lower) THEN <<fallbackText.hydrationTip>> ELSE <<>>,
         generalAdvice |-> <<fallbackText.generalAdvice>>])))))))))

----------------------------------------------------------------------------
(* Prescription simplifier: the model adapter and the pipeline             *)

\* requestGeminiJson once the API key is present and the fetch has settled. The fetch
\* and response.json() are awaited outside any try, so their rejection is thrown on;
\* a status outside 2xx, a missing or empty text and text that is not JSON give null.
requestGeminiJson(outcome) ==
    IF outcome.kind \in {"reject", "badbody"}
    THEN [kind |-> "throw",
          message |-> IF outcome.kind = "reject" THEN "fetch failed"
                      ELSE "response.json() failed"]
    ELSE IF outcome.kind \in {"status", "notext"} THEN [kind |-> "null"]
    ELSE With(TrimSegs(outcome.text), LAMBDA rawText :
        IF Len(rawText) = 0 THEN [kind |-> "null"]
        ELSE IF JSONparse(rawText).ok THEN [kind |-> "value", v |-> JSONparse(rawText).v]
        ELSE With(MatchBraces(rawText), LAMBDA possibleJson :
            IF possibleJson.matched /\ JSONparse(possibleJson.text).ok
            THEN [kind |-> "value", v |-> JSONparse(possibleJson.text).v]
            ELSE [kind |-> "null"]))

\* what runPrescriptionSimplifier and translatePrescriptionSummaryToLanguage make of a
\* reply that was not thrown on: the schema-valid summary with the language coerced,
\* or null
ModelSummary(json, language) ==
    IF json.kind # "value" \/ ~Truthy(json.v) THEN [valid |-> FALSE]
    ELSE With(prescriptionSimplifyResponseSchema(json.v), LAMBDA parsed :
        IF ~parsed.success THEN [valid |-> FALSE]
        ELSE [valid |-> TRUE, summary |-> coercePrescriptionLanguage(parsed.data, language)])

\* prescriptionSimplifySchema.safeParse: text of 10..6000 characters, language of the
\* enum or absent; null, which parseBody passes for a body that is not JSON, is no object
prescriptionSimplifySchema(body) ==
    /\ body.json
    /\ Len(body.text) >= 10
    /\ Len(body.text) <= 6000
    /\ (body.language.undefined \/ LanguageOf(JString(body.language.s)) # "")

\* payload.data: the language defaults to "en"
SimplifyData(body) ==
    [valid |-> TRUE, text |-> body.text,
     language |-> IF body.language.undefined THEN "en" ELSE LanguageOf(JString(body.language.s))]

\* c.json({ summary, meta })
SimplifyOk(summary) == [status |-> 200, summary |-> summary]

\* the AI_PRESCRIPTION_SIMPLIFY row
SimplifyAuditRow(summary) ==
    [action |-> "AI_PRESCRIPTION_SIMPLIFY", language |-> summary.languageCode,
     medicineCount |-> Len(summary.medicines)]

\* getActor and parseBody: 401/403 for a rejected actor, 400 for an invalid payload
SimplifyReceive(actor, body) ==
    /\ pc = "idle"
    /\ route' = "simplify"
    /\ IF ActorStatus(actor) # 0
       THEN /\ response' = [status |-> ActorStatus(actor), error |-> "actor"]
            /\ pc' = "done"
            /\ req' = req
       ELSE IF ~prescriptionSimplifySchema(body)
       THEN /\ response' = [status |-> 400, error |-> "Invalid payload"]
            /\ pc' = "done"
            /\ req' = req
       ELSE /\ req' = SimplifyData(body)
            /\ pc' = "run"
            /\ response' = response
    /\ UNCHANGED <<roomVars, bookingVars, env, fallback, candidate, modelCalls, replies, ret, audit, trace>>

\* runPrescriptionSimplifier up to its first await: the fallback is computed, returned
\* when there is no API key, and the first fetch is issued otherwise
SimplifyRun ==
    /\ pc = "run"
    /\ route = "simplify"
    /\ \E summary \in {fallbackPrescriptionSummary(req)} :
           /\ fallback' = summary
           /\ IF ~env.GEMINI_API_KEY
              THEN /\ ret' = [kind |-> "return", source |-> "fallback", value |-> summary]
                   /\ trace' = <<"Fallback", "Result">>
                   /\ pc' = "audit"
                   /\ modelCalls' = modelCalls
              ELSE /\ modelCalls' = modelCalls + 1
                   /\ trace' = <<"Fallback">>
                   /\ pc' = "fetch"
                   /\ ret' = ret
    /\ UNCHANGED <<roomVars, bookingVars, env, route, req, candidate, replies, audit, response>>

\* the first fetch settles: null or a schema failure returns the fallback, an aligned
\* summary is returned, a misaligned one is sent to the translation retry; a thrown
\* error reaches the handler's catch
SimplifyFetched(outcome) ==
    /\ pc = "fetch"
    /\ route = "simplify"
    /\ replies' = Append(replies, outcome)
    /\ \E parsedJson \in {requestGeminiJson(outcome)} :
        \E parsed \in {ModelSummary(parsedJson, req.language)} :
           IF parsedJson.kind = "throw"
           THEN /\ ret' = [kind |-> "throw", message |-> parsedJson.message]
                /\ response' = Unavailable(parsedJson.message)
                /\ trace' = trace \o <<"Model">>
                /\ pc' = "done"
                /\ UNCHANGED <<candidate, modelCalls>>
           ELSE IF ~parsed.valid
           THEN /\ ret' = [kind |-> "return", source |-> "fallback", value |-> fallback]
                /\ trace' = trace \o <<"Model", "Result">>
                /\ pc' = "audit"
                /\ UNCHANGED <<candidate, modelCalls, response>>
           ELSE IF isPrescriptionLanguageAligned(parsed.summary, req.language)
           THEN /\ ret' = [kind |-> "return", source |-> "model", value |-> parsed.summary]
                /\ trace' = trace \o <<"Model", "Validate", "Align", "Result">>
                /\ pc' = "audit"
                /\ UNCHANGED <<candidate, modelCalls, response>>
           ELSE /\ candidate' = parsed.summary
                /\ modelCalls' = modelCalls + 1
                /\ trace' = trace \o <<"Model", "Validate", "Align", "Translate">>
                /\ pc' = "retry"
                /\ UNCHANGED <<ret, response>>
    /\ UNCHANGED <<roomVars, bookingVars, env, route, req, fallback, audit>>

\* the fetch of translatePrescriptionSummaryToLanguage settles: the translation is
\* returned when it is schema-valid and aligned, the fallback otherwise
SimplifyRetried(outcome) ==
    /\ pc = "retry"
    /\ route = "simplify"
    /\ replies' = Append(replies, outcome)
    /\ \E translatedJson \in {requestGeminiJson(outcome)} :
        \E translated \in {ModelSummary(translatedJson, req.language)} :
           IF translatedJson.kind = "throw"
           THEN /\ ret' = [kind |-> "throw", message |-> translatedJson.message]
                /\ response' = Unavailable(translatedJson.message)
                /\ trace' = trace \o <<"Model">>
                /\ pc' = "done"
           ELSE /\ ret' = IF translated.valid
                             /\ isPrescriptionLanguageAligned(translated.summary, req.language)
                          THEN [kind |-> "return", source |-> "translation",
                                value |-> translated.summary]
                          ELSE [kind |-> "return", source |-> "fallback", value |-> fallback]
                /\ trace' = trace \o <<"Model", "Result">>
                /\ pc' = "audit"
                /\ response' = response
    /\ UNCHANGED <<roomVars, bookingVars, env, route, req, fallback, candidate, modelCalls, audit>>

\* await createAuditLog(AI_PRESCRIPTION_SIMPLIFY) inside the try, then the answer
SimplifyAudit(written) ==
    /\ pc = "audit"
    /\ route = "simplify"
    /\ IF ~written
       THEN /\ response' = Unavailable("audit write failed")
            /\ audit' = audit
       ELSE /\ audit' = Append(audit, SimplifyAuditRow(ret.value))
            /\ response' = SimplifyOk(ret.value)
    /\ pc' = "done"
    /\ UNCHANGED <<roomVars, bookingVars, env, route, req, fallback, candidate, modelCalls, replies, ret, trace>>

----------------------------------------------------------------------------
(* Prescription simplifier: the requests and the model replies explored    *)

\* most fragments a prescription text is built from
MaxParts == 2

\* length of the long medicine name
LongNameLen == 161

\* a medicine name of LongNameLen letters
LongName == [i \in 1..LongNameLen |-> 97]

\* the fragments of a prescription text, in the order they are written
SimplifyParts == <<
    <<84, 97, 107, 101, 32, 80, 97, 114, 97, 99, 101, 116, 97, 109, 111, 108, 32, 53, 48, 48, 109, 103>>,  \* "Take Paracetamol 500mg"
    LongName \o <<32, 54, 53, 48, 32, 109, 103>>,  \* " 650 mg"
    <<116, 119, 105, 99, 101, 32, 100, 97, 105, 108, 121, 32, 97, 102, 116, 101, 114, 32, 102, 111, 111, 100>>,  \* "twice daily after food"
    <<102, 111, 114, 32, 53, 32, 100, 97, 121, 115, 46>>,  \* "for 5 days."
    <<105, 102, 32, 102, 101, 118, 101, 114, 32, 112, 101, 114, 115, 105, 115, 116, 115>>,  \* "if fever persists"
    <<97, 115, 32, 110, 101, 101, 100, 101, 100>> >>  \* "as needed"

\* the fragments at the indices of S, in order
RECURSIVE PartsAt(_, _)
PartsAt(S, i) ==
    IF i > Len(SimplifyParts) THEN <<>>
    ELSE (IF i \in S THEN <<SimplifyParts[i]>> ELSE <<>>) \o PartsAt(S, i + 1)

\* the prescription texts: 1..MaxParts fragments joined by a space
SimplifyTexts ==
    {Join(PartsAt(S, 1), <<32>>) :
        S \in {T \in SUBSET (1..Len(SimplifyParts)) : Cardinality(T) \in 1..MaxParts}}

\* the language field of the body: absent, the four of the enum, and "fr"
BodyLanguages ==
    {Undefined} \cup {Str(LanguageText[l]) : l \in prescriptionLanguageSchema}
                \cup {Str(<<102, 114>>)}  \* "fr"

\* the end-to-end example, "Take Paracetamol 500mg twice daily for 5 days after food. Qty 10."
PrescriptionExample == <<84, 97, 107, 101, 32, 80, 97, 114, 97, 99, 101, 116, 97, 109, 111, 108, 32, 53, 48, 48, 109, 103, 32, 116, 119, 105, 99, 101, 32, 100, 97, 105, 108, 121, 32, 102, 111, 114, 32, 53, 32, 100, 97, 121, 115, 32, 97, 102, 116, 101, 114, 32, 102, 111, 111, 100, 46, 32, 81, 116, 121, 32, 49, 48, 46>>

\* prescription texts written in full
SimplifyExamples == {
    PrescriptionExample,
    <<83, 121, 114, 117, 112, 32, 49, 48, 32, 109, 108, 32, 116, 119, 105, 99, 101, 32, 100, 97, 105, 108, 121>>,  \* "Syrup 10 ml twice daily"
    <<84, 97, 98, 32, 65, 109, 111, 120, 105, 99, 105, 108, 108, 105, 110, 32, 50, 53, 48, 32, 109, 103, 32, 97, 116, 32, 98, 101, 100, 116, 105, 109, 101>>,  \* "Tab Amoxicillin 250 mg at bedtime"
    <<49, 32, 116, 97, 98, 108, 101, 116, 32, 109, 111, 114, 110, 105, 110, 103, 44, 32, 110, 111, 111, 110, 32, 97, 110, 100, 32, 110, 105, 103, 104, 116, 32, 98, 101, 102, 111, 114, 101, 32, 102, 111, 111, 100, 32, 97, 110, 100, 32, 98, 101, 102, 111, 114, 101, 32, 98, 101, 100>>,  \* "1 tablet morning, noon and night before food and before bed"
    <<67, 97, 112, 32, 79, 109, 101, 112, 114, 97, 122, 111, 108, 101, 32, 50, 48, 32, 109, 103, 32, 111, 110, 99, 101, 32, 100, 97, 105, 108, 121, 44, 32, 97, 118, 111, 105, 100, 32, 101, 109, 112, 116, 121, 32, 115, 116, 111, 109, 97, 99, 104, 44, 32, 83, 79, 83>> }  \* "Cap Omeprazole 20 mg once daily, avoid empty stomach, SOS"

\* prescription texts with a frequency idiom and no day-part
TimingExamples == {
    <<84, 97, 98, 32, 80, 97, 110, 116, 111, 112, 114, 97, 122, 111, 108, 101, 32, 52, 48, 32, 109, 103, 32, 79, 68, 32, 111, 110, 32, 101, 109, 112, 116, 121, 32, 115, 116, 111, 109, 97, 99, 104>>,  \* "Tab Pantoprazole 40 mg OD on empty stomach"
    <<67, 97, 112, 32, 65, 109, 111, 120, 105, 99, 105, 108, 108, 105, 110, 32, 53, 48, 48, 32, 109, 103, 32, 84, 73, 68, 32, 98, 101, 102, 111, 114, 101, 32, 102, 111, 111, 100, 32, 111, 114, 32, 97, 102, 116, 101, 114, 32, 109, 101, 97, 108, 115>>,  \* "Cap Amoxicillin 500 mg TID before food or after meals"
    <<84, 97, 98, 32, 77, 101, 116, 102, 111, 114, 109, 105, 110, 32, 53, 48, 48, 32, 109, 103, 32, 66, 73, 68, 32, 98, 101, 102, 111, 114, 101, 32, 109, 101, 97, 108, 115, 44, 32, 98, 101, 100, 116, 105, 109, 101>>,  \* "Tab Metformin 500 mg BID before meals, bedtime"
    <<84, 97, 98, 32, 65, 116, 111, 114, 118, 97, 115, 116, 97, 116, 105, 110, 32, 49, 48, 32, 109, 103, 32, 111, 110, 99, 101, 32, 97, 32, 100, 97, 121>> }  \* "Tab Atorvastatin 10 mg once a day"

\* a text of 6001 letters
LongText == [i \in 1..6001 |-> 97]

\* the bodies posted to /ai/prescription-simplify
SimplifyBodies ==
    {NotJson} \cup
    {[json |-> TRUE, text |-> text, language |-> language] :
        text \in SimplifyTexts \cup SimplifyExamples \cup TimingExamples \cup {LongText}, language \in BodyLanguages}

\* "Take one tablet after food twice a day."
NarrativeEn == <<84, 97, 107, 101, 32, 111, 110, 101, 32, 116, 97, 98, 108, 101, 116, 32, 97, 102, 116, 101, 114, 32, 102, 111, 111, 100, 32, 116, 119, 105, 99, 101, 32, 97, 32, 100, 97, 121, 46>>  \* "Take one tablet after food twice a day."

\* a medicine of a reply
ReplyMedicine(instructions) ==
    [medicineName |-> JString(<<80, 97, 114, 97, 99, 101, 116, 97, 109, 111, 108>>),  \* "Paracetamol"
     dosage |-> JString(<<53, 48, 48, 109, 103>>),  \* "500mg"
     duration |-> JString(<<53, 32, 100, 97, 121, 115>>),  \* "5 days"
     timingSlots |-> JArray(<<JString(SlotText["MORNING_AFTER_FOOD"])>>),
     instructions |-> JArray(instructions)]

\* a reply object with the seven fields
SimplifyJson(code, explanation, instructions) ==
    [languageCode |-> JString(code),
     languageLabel |-> JString(prescriptionLanguageLabels["en"]),
     doctorExplanation |-> JString(explanation),
     medicines |-> JArray(<<JObject(ReplyMedicine(instructions))>>),
     warnings |-> JArray(<<>>),
     hydrationTips |-> JArray(<<>>),
     generalAdvice |-> JArray(<<>>)]

\* schema-valid replies: English text, Hindi text, Tamil text, and Hindi text with an
\* instruction in Latin letters
SummaryEn == SimplifyJson(LanguageText["en"], NarrativeEn, <<>>)
SummaryHi == SimplifyJson(LanguageText["hi"], FallbackHi.takeAfterFood, <<>>)
SummaryTa == SimplifyJson(LanguageText["ta"], FallbackTa.takeAfterFood, <<>>)
SummaryMixed ==
    SimplifyJson(LanguageText["en"], FallbackHi.takeAfterFood,
                 <<JString(<<80, 97, 114, 97, 99, 101, 116, 97, 109, 111, 108, 32, 53, 48, 48, 109, 103>>)>>)  \* "Paracetamol 500mg"

\* replies that break the schema: no medicine, and an extra key
BadSimplifyJson == {
    [SummaryEn EXCEPT !["medicines"] = JArray(<<>>)],
    [k \in SummaryFields \cup {"diagnosis"} |->
        IF k = "diagnosis" THEN JString(NarrativeEn) ELSE SummaryEn[k]] }

\* what the external model does on a simplifier call
SimplifyReplies ==
    {FetchReject, FetchStatus, FetchBadBody, FetchNoText,
     FetchText(<<SegProse>>),
     FetchText(<<SegJson(JNull)>>),
     FetchText(<<SegProse, SegSpace, SegJson(JObject(SummaryEn))>>),
     FetchText(<<SegJson(JObject(SummaryEn))>>),
     FetchText(<<SegJson(JObject(SummaryHi))>>),
     FetchText(<<SegJson(JObject(SummaryTa))>>),
     FetchText(<<SegJson(JObject(SummaryMixed))>>)}
    \cup {FetchText(<<SegJson(JObject(o))>>) : o \in BadSimplifyJson}

----------------------------------------------------------------------------
(* Prescription simplifier: the claims                                     *)

\* a prescription-simplify request passed parseBody and runPrescriptionSimplifier has
\* returned or thrown
SimplifySettled == route = "simplify" /\ req.valid /\ pc \in {"audit", "done"}

\* the first reply was not thrown on and gave null or a value outside the schema
FirstReplyUnusable ==
    /\ replies # <<>>
    /\ requestGeminiJson(replies[1]).kind # "throw"
    /\ ~ModelSummary(requestGeminiJson(replies[1]), req.language).valid

\* C7: for every valid simplify request and every behaviour of the external model
\* (absent, network error, non-2xx status, empty payload, unparseable text,
\* schema-invalid JSON, misaligned language) the simplifier returns a summary and the
\* caller gets it, never an error, once the audit row is written; when the model gave
\* null or schema-invalid output the summary is the deterministic extractor's result.
C7_SimplifierNeverFails ==
    SimplifySettled
        => /\ ret.kind = "return"
           /\ (pc = "done" /\ audit # <<>>)
                => (response.status = 200 /\ response.summary = ret.value)
           /\ FirstReplyUnusable => ret.value = fallbackPrescriptionSummary(req)

\* strings of lo..hi characters, at most `most` of them
TextsWithin(items, most, lo, hi) ==
    /\ Len(items) <= most
    /\ \A i \in 1..Len(items) : Len(items[i]) >= lo /\ Len(items[i]) <= hi

\* the SimplifiedPrescriptionSummary contract
MeetsSummarySchema(summary) ==
    /\ Len(summary.medicines) >= 1
    /\ Len(summary.medicines) <= 12
    /\ \A i \in 1..Len(summary.medicines) :
          /\ TextsWithin(<<summary.medicines[i].medicineName, summary.medicines[i].dosage,
                           summary.medicines[i].duration>>, 3, 1, 160)
          /\ Len(summary.medicines[i].timingSlots) >= 1
          /\ Len(summary.medicines[i].timingSlots) <= 8
          /\ TextsWithin(summary.medicines[i].instructions, 8, 1, 220)
    /\ Len(summary.doctorExplanation) >= 5
    /\ Len(summary.doctorExplanation) <= 1200
    /\ TextsWithin(summary.warnings, 10, 1, 220)
    /\ TextsWithin(summary.hydrationTips, 8, 1, 220)
    /\ TextsWithin(summary.generalAdvice, 10, 1, 220)

\* C8: every summary the simplifier returns, the deterministic fallback of any accepted
\* text included, meets the SimplifiedPrescriptionSummary schema: 1-12 medicines with
\* medicineName, dosage and duration of 1-160 characters, 1-8 timing slots and at most
\* 8 instructions of 1-220 characters; doctorExplanation of 5-1200 characters; at most
\* 10 warnings, 8 hydrationTips and 10 generalAdvice entries of 1-220 characters.
C8_SummariesMeetSchema ==
    (route = "simplify" /\ ret.kind = "return") => MeetsSummarySchema(ret.value)

\* the narrative of the summary holds a character of the script of the language
HasScriptOf(summary, language) ==
    \E narrative \in {prescriptionNarrativeText(summary)} :
        \E i \in 1..Len(narrative) :
            \/ (language = "hi" /\ narrative[i] >= 2304 /\ narrative[i] <= 2431)
            \/ (language = "bn" /\ narrative[i] >= 2432 /\ narrative[i] <= 2559)
            \/ (language = "ta" /\ narrative[i] >= 2944 /\ narrative[i] <= 3071)

\* C9: for a target of hi, ta or bn, what the simplifier returns is the deterministic
\* fallback, or the summary of the first generation or of the translation retry that
\* passed the alignment check; a summary with no character of the target script is
\* never returned as model text.
C9_OnlyAlignedModelText ==
    (route = "simplify" /\ ret.kind = "return" /\ req.language # "en")
        => /\ \/ ret.source = "fallback" /\ ret.value = fallback
              \/ /\ ret.source = "model"
                 /\ ret.value = ModelSummary(requestGeminiJson(replies[1]), req.language).summary
              \/ /\ ret.source = "translation"
                 /\ ret.value = ModelSummary(requestGeminiJson(replies[2]), req.language).summary
           /\ ret.source # "fallback"
                => /\ HasScriptOf(ret.value, req.language)
                   /\ isPrescriptionLanguageAligned(ret.value, req.language)
           /\ response.status = 200 => response.summary = ret.value

\* C9 witness: a "hi" request whose first reply was schema-valid with no Devanagari
\* character and whose translation retry was not aligned either got the fallback
C9_Witness ==
    /\ route = "simplify"
    /\ pc = "done"
    /\ req.valid
    /\ req.language = "hi"
    /\ Len(replies) = 2
    /\ ModelSummary(requestGeminiJson(replies[1]), "hi").valid
    /\ ~HasScriptOf(candidate, "hi")
    /\ ModelSummary(requestGeminiJson(replies[2]), "hi").valid
    /\ ret.kind = "return"
    /\ ret.value = fallback
    /\ response.status = 200
    /\ response.summary = fallback

\* the first reply gave a schema-valid summary that fails the alignment check
FirstReplyMisaligned ==
    /\ replies # <<>>
    /\ \E first \in {ModelSummary(requestGeminiJson(replies[1]), req.language)} :
           /\ first.valid
           /\ ~isPrescriptionLanguageAligned(first.summary, req.language)

\* the translation retry settled without a thrown error
RetrySettled == Len(replies) = 2 /\ requestGeminiJson(replies[2]).kind # "throw"

\* the translation retry gave a schema-valid and aligned summary
RetryUsable ==
    \E translated \in {ModelSummary(requestGeminiJson(replies[2]), req.language)} :
        /\ translated.valid
        /\ isPrescriptionLanguageAligned(translated.summary, req.language)

\* C11: a simplify request issues at most two model calls, one generation and one
\* translation retry; the retry is issued exactly when the schema-valid first result
\* fails alignment, which needs a target other than "en", and carries that result; a
\* retry that gives null, a schema-invalid value or a misaligned summary ends with the
\* deterministic fallback and no further call, a usable one is what is returned.
C11_AtMostOneTranslationRetry ==
    (route = "simplify" /\ req.valid)
        => /\ modelCalls <= 2
           /\ Len(replies) <= modelCalls
           /\ modelCalls = 2 <=> FirstReplyMisaligned
           /\ modelCalls = 2
                => /\ req.language # "en"
                   /\ candidate = ModelSummary(requestGeminiJson(replies[1]), req.language).summary
           /\ RetrySettled
                => /\ modelCalls = 2
                   /\ pc \in {"audit", "done"}
                   /\ ret.kind = "return"
                   /\ ret.value = IF RetryUsable
                                  THEN ModelSummary(requestGeminiJson(replies[2]),
                                                    req.language).summary
                                  ELSE fallback

\* C11 witness: the retry of a "ta" request answered with a status outside 2xx, and
\* the request ended with the fallback after two calls
C11_Witness ==
    /\ route = "simplify"
    /\ pc = "done"
    /\ req.valid
    /\ req.language = "ta"
    /\ modelCalls = 2
    /\ Len(replies) = 2
    /\ replies[2] = FetchStatus
    /\ ret.kind = "return"
    /\ ret.value = fallback
    /\ response.status = 200

\* C12: requestGeminiJson gives parsed JSON or null for every outcome of the outbound
\* call: a network error, a status outside 2xx, an empty payload and text that does not
\* parse each give null, and nothing is thrown to the caller.
C12_AdapterNeverRaises ==
    route = "simplify"
        => \A i \in 1..Len(replies) :
              \E result \in {requestGeminiJson(replies[i])} :
                  /\ result.kind \in {"null", "value"}
                  /\ replies[i].kind \in {"reject", "status", "notext"} => result.kind = "null"

\* the first word of a text: the letters, digits and hyphens it starts with, in lower
\* case
LeadingWord(text) ==
    With(sanitizeTriageText(text), LAMBDA t :
        toLowerCase(SubSeq(t, 1, MaxOf({0, WordEnd(t, 1) - 1}))))

\* C15: with no model available the text "Take Paracetamol 500mg twice daily for 5
\* days after food. Qty 10." in "en" gives one medicine named "Paracetamol" with dosage
\* "500mg", duration "5 days", the slots MORNING_AFTER_FOOD and NIGHT_AFTER_FOOD and
\* an instruction holding "Qty 10"; and for every text a leading take, tab, tablet,
\* capsule, cap or syrup word is not the word the extracted medicine name starts with.
C15_ExtractorExample ==
    (route = "simplify" /\ req.valid /\ ret.kind = "return" /\ ~env.GEMINI_API_KEY)
        => \E summary \in {ret.value} :
              /\ (req.text = PrescriptionExample /\ req.language = "en")
                    => /\ Len(summary.medicines) = 1
                       /\ summary.medicines[1].medicineName = <<80, 97, 114, 97, 99, 101, 116, 97, 109, 111, 108>>  \* "Paracetamol"
                       /\ summary.medicines[1].dosage = <<53, 48, 48, 109, 103>>  \* "500mg"
                       /\ summary.medicines[1].duration = <<53, 32, 100, 97, 121, 115>>  \* "5 days"
                       /\ {"MORNING_AFTER_FOOD", "NIGHT_AFTER_FOOD"}
                              \subseteq Range(summary.medicines[1].timingSlots)
                       /\ \E i \in 1..Len(summary.medicines[1].instructions) :
                              Includes(summary.medicines[1].instructions[i], <<81, 116, 121, 32, 49, 48>>)  \* "Qty 10"
              /\ \A p \in 1..(Len(MedicinePrefixes) - 1) :
                     LeadingWord(req.text) = MedicinePrefixes[p]
                        => LeadingWord(summary.medicines[1].medicineName) # MedicinePrefixes[p]

\* the display name of each language code
CanonicalLabel(code) ==
    CASE code = "en" -> <<69, 110, 103, 108, 105, 115, 104>>  \* "English"
      [] code = "hi" -> <<72, 105, 110, 100, 105>>  \* "Hindi"
      [] code = "ta" -> <<84, 97, 109, 105, 108>>  \* "Tamil"
      [] code = "bn" -> <<66, 101, 110, 103, 97, 108, 105>>  \* "Bengali"

\* C18: every summary the simplifier returns, the fallback, the first model result or
\* the translation, has the languageCode of the request and the display name of that
\* code as languageLabel, whatever the model wrote in the two fields.
C18_LanguageFieldsCoerced ==
    (route = "simplify" /\ ret.kind = "return")
        => /\ ret.value.languageCode = req.language
           /\ ret.value.languageLabel = CanonicalLabel(req.language)
           /\ response.status = 200
                => /\ response.summary.languageCode = req.language
                   /\ response.summary.languageLabel = CanonicalLabel(req.language)

\* C18 witness: a "hi" request was answered with the model summary, whose reply said
\* languageLabel "English"
C18_Witness ==
    /\ route = "simplify"
    /\ pc = "done"
    /\ req.valid
    /\ req.language = "hi"
    /\ ret.kind = "return"
    /\ ret.source = "model"
    /\ replies[1] = FetchText(<<SegJson(JObject(SummaryHi))>>)
    /\ SummaryHi.languageLabel = JString(CanonicalLabel("en"))
    /\ response.status = 200
    /\ response.summary.languageLabel = CanonicalLabel("hi")

\* no timing word occurs in the text
NoTimingWord(text) ==
    ~AnyWord(toLowerCase(sanitizeTriageText(text)),
             {<<110, 101, 101, 100, 101, 100>>, <<115, 111, 115>>, <<109, 111, 114, 110, 105, 110, 103>>, <<97, 102, 116, 101, 114, 110, 111, 111, 110>>, <<110, 111, 111, 110>>, <<110, 105, 103, 104, 116>>, <<101, 118, 101, 110, 105, 110, 103>>, <<100, 97, 105, 108, 121>>, <<100, 97, 121>>, <<116, 105, 100>>, <<98, 105, 100>>, <<111, 100>>, <<98, 101, 100>>, <<98, 101, 100, 116, 105, 109, 101>>, <<102, 111, 111, 100>>, <<109, 101, 97, 108>>, <<109, 101, 97, 108, 115>>, <<115, 116, 111, 109, 97, 99, 104>>})  \* "needed", "sos", "morning", "afternoon", "noon", "night", "evening", "daily", "day", "tid", "bid", "od", "bed", "bedtime", "food", "meal", "meals", "stomach"

\* C19: the timing slots the extractor gives a medicine are 1 to 8 distinct members of
\* the TimingSlot enum; UNSPECIFIED comes alone; and a text with no timing word gets
\* exactly [UNSPECIFIED].
C19_TimingSlotsWellFormed ==
    (route = "simplify" /\ fallback # NoRequest)
        => \A m \in 1..Len(fallback.medicines) :
              \E slots \in {fallback.medicines[m].timingSlots} :
                  /\ Len(slots) >= 1
                  /\ Len(slots) <= 8
                  /\ Range(slots) \subseteq prescriptionTimingSlotSchema
                  /\ \A i, j \in 1..Len(slots) : slots[i] = slots[j] => i = j
                  /\ "UNSPECIFIED" \in Range(slots) => slots = <<"UNSPECIFIED">>
                  /\ slots # <<"UNSPECIFIED">> => ~NoTimingWord(req.text)

\* C19 witness: one text got four slots and none of them is UNSPECIFIED
C19_Witness ==
    /\ route = "simplify"
    /\ fallback # NoRequest
    /\ Len(fallback.medicines[1].timingSlots) = 4
    /\ "BEDTIME" \in Range(fallback.medicines[1].timingSlots)
    /\ "UNSPECIFIED" \notin Range(fallback.medicines[1].timingSlots)

----------------------------------------------------------------------------
(* Both handlers: the request contract                                     *)

\* a symptom-checker body outside the request contract: not JSON, symptoms shorter
\* than 10 characters, or an age outside 0..120
ViolatesTriageContract(body) ==
    \/ ~body.json
    \/ Len(body.symptoms) < 10
    \/ /\ ~body.age.undefined
       /\ (body.age.n < 0 \/ body.age.n > 120 \/ (body.age.n = 120 /\ body.age.tenths > 0))

\* a prescription-simplify body outside the request contract: text outside 10..6000
\* characters, or a language that is not en, hi, ta or bn
ViolatesSimplifyContract(body) ==
    /\ body.json
    /\ \/ Len(body.text) < 10
       \/ Len(body.text) > 6000
       \/ /\ ~body.language.undefined
          /\ \A l \in {"en", "hi", "ta", "bn"} : body.language.s # LanguageText[l]

\* the request ended with the invalid-payload error and nothing else happened
InvalidPayloadOnly ==
    /\ response.status = 400
    /\ response.error = "Invalid payload"
    /\ pc = "done"
    /\ ~req.valid
    /\ ret = NoReturn
    /\ trace = <<>>
    /\ modelCalls = 0
    /\ replies = <<>>
    /\ audit = <<>>

\* C14: a triage body outside the request contract (symptoms shorter than 10
\* characters, age outside 0..120, not JSON) and a simplify body whose text is outside
\* 10..6000 characters or whose language is not of the enum is answered with the
\* invalid-payload error, and a request answered so has run no pipeline stage: no gate
\* was evaluated, no model call made, no audit row written.
C14_InvalidPayloadRejected ==
    /\ [](response.status = 400 => InvalidPayloadOnly)
    /\ [][pc = "idle"
            => /\ \A body \in TriageBodies :
                    (TriageReceive("approved", body) /\ ViolatesTriageContract(body))
                        => InvalidPayloadOnly'
               /\ \A body \in SimplifyBodies :
                    (SimplifyReceive("approved", body) /\ ViolatesSimplifyContract(body))
                        => InvalidPayloadOnly']_vars

\* C14 witness: a request was answered with the invalid-payload error
C14_Witness ==
    /\ route \in {"triage", "simplify"}
    /\ response.status = 400
    /\ pc = "done"
    /\ modelCalls = 0

\* C21: the outbound model call is bounded in time: a request waiting for the answer
\* of the external model goes on in the end, the triage request to the Failed state or
\* its result and the simplify request to a summary, also when the service never
\* answers.
C21_ModelCallTimesOut ==
    (route \in {"triage", "simplify"} /\ pc \in {"fetch", "retry"})
        ~> (route \in {"triage", "simplify"} /\ pc \in {"audit", "done"})

----------------------------------------------------------------------------
(* Web client: normalizeSymptomTriage (lib/triage)                         *)

\* the value of a property an object does not have
JUndefined == [t |-> "undefined"]

\* one code unit of String.prototype.toUpperCase: the ASCII letters, and the two other
\* code units whose upper case is an ASCII letter (dotless i and long s)
UpperChar(c) ==
    IF c >= 97 /\ c <= 122 THEN c - 32
    ELSE IF c = 305 THEN 73
    ELSE IF c = 383 THEN 83
    ELSE c

\* String.prototype.toUpperCase
toUpperCase(s) == With(s, LAMBDA t : [i \in 1..Len(t) |-> UpperChar(t[i])])

\* the members of LegacySeverity, as strings
SeverityText == [LOW |-> <<76, 79, 87>>, MEDIUM |-> <<77, 69, 68, 73, 85, 77>>, HIGH |-> <<72, 73, 71, 72>>, EMERGENCY |-> <<69, 77, 69, 82, 71, 69, 78, 67, 89>>]  \* "LOW", "MEDIUM", "HIGH", "EMERGENCY"

\* LEGACY_SEVERITY_TO_LEVEL
LEGACY_SEVERITY_TO_LEVEL ==
    [LOW |-> "BLUE", MEDIUM |-> "GREEN", HIGH |-> "YELLOW", EMERGENCY |-> "RED"]

\* DEFAULT_DISCLAIMER
DEFAULT_DISCLAIMER == <<84, 104, 105, 115, 32, 116, 114, 105, 97, 103, 101, 32, 114, 101, 115, 117, 108, 116, 32, 105, 115, 32, 110, 111, 116, 32, 97, 32, 100, 105, 97, 103, 110, 111, 115, 105, 115, 32, 111, 114, 32, 116, 114, 101, 97, 116, 109, 101, 110, 116, 32, 112, 108, 97, 110, 46, 32, 80, 108, 101, 97, 115, 101, 32, 99, 111, 110, 115, 117, 108, 116, 32, 97, 32, 108, 105, 99, 101, 110, 115, 101, 100, 32, 109, 101, 100, 105, 99, 97, 108, 32, 112, 114, 111, 102, 101, 115, 115, 105, 111, 110, 97, 108, 46>>  \* "This triage result is not a diagnosis or treatment plan. Please consult a licensed medical professional."

\* EMERGENCY_CALL_NUMBER
EMERGENCY_CALL_NUMBER == <<49, 49, 50>>  \* "112"

\* the default summary of normalizeSymptomTriage
DefaultSummary == <<83, 121, 109, 112, 116, 111, 109, 115, 32, 119, 101, 114, 101, 32, 114, 101, 118, 105, 101, 119, 101, 100, 32, 102, 111, 114, 32, 116, 114, 105, 97, 103, 101, 46>>  \* "Symptoms were reviewed for triage."

\* the default explanation of a current-shaped value
DefaultExplanation == <<84, 104, 105, 115, 32, 117, 114, 103, 101, 110, 99, 121, 32, 108, 101, 118, 101, 108, 32, 119, 97, 115, 32, 115, 101, 108, 101, 99, 116, 101, 100, 32, 98, 97, 115, 101, 100, 32, 111, 110, 32, 116, 104, 101, 32, 114, 101, 112, 111, 114, 116, 101, 100, 32, 115, 121, 109, 112, 116, 111, 109, 32, 112, 97, 116, 116, 101, 114, 110, 46>>  \* "This urgency level was selected based on the reported symptom pattern."

\* the default explanation of a legacy-shaped value
DefaultLegacyExplanation == <<84, 104, 105, 115, 32, 117, 114, 103, 101, 110, 99, 121, 32, 108, 101, 118, 101, 108, 32, 119, 97, 115, 32, 101, 115, 116, 105, 109, 97, 116, 101, 100, 32, 102, 114, 111, 109, 32, 116, 104, 101, 32, 114, 101, 112, 111, 114, 116, 101, 100, 32, 115, 121, 109, 112, 116, 111, 109, 115, 46>>  \* "This urgency level was estimated from the reported symptoms."

\* toNonEmptyString without its fallback for a blank string (a mutation of
\* toNonEmptyString)
toNonEmptyString_KeepBlank(value, fallbackText) ==
    IF value.t # "string" THEN fallbackText ELSE trim(value.s)

\* toNonEmptyString
toNonEmptyString(value, fallbackText) ==
    IF value.t # "string" THEN fallbackText
    ELSE With(trim(value.s), LAMBDA cleaned : IF Len(cleaned) > 0 THEN cleaned ELSE fallbackText)

\* parseTriageLevel; "" stands for null
parseTriageLevel(value) ==
    IF value.t # "string" THEN ""
    ELSE With(toUpperCase(trim(value.s)), LAMBDA normalized :
        IF \E l \in {"RED", "YELLOW", "GREEN", "BLUE"} : normalized = LevelText[l]
        THEN CHOOSE l \in {"RED", "YELLOW", "GREEN", "BLUE"} : normalized = LevelText[l]
        ELSE "")

\* parseLegacySeverity; "" stands for null
parseLegacySeverity(value) ==
    IF value.t # "string" THEN ""
    ELSE With(toUpperCase(trim(value.s)), LAMBDA normalized :
        IF \E v \in DOMAIN SeverityText : normalized = SeverityText[v]
        THEN CHOOSE v \in DOMAIN SeverityText : normalized = SeverityText[v]
        ELSE "")

\* defaultRecommendedAction
defaultRecommendedAction(level) ==
    IF level = "RED"
    THEN <<67, 97, 108, 108, 32, 101, 109, 101, 114, 103, 101, 110, 99, 121, 32, 115, 101, 114, 118, 105, 99, 101, 115, 32, 105, 109, 109, 101, 100, 105, 97, 116, 101, 108, 121, 32, 40>> \o EMERGENCY_CALL_NUMBER  \* "Call emergency services immediately ("
            \o <<41, 32, 97, 110, 100, 32, 115, 101, 101, 107, 32, 101, 109, 101, 114, 103, 101, 110, 99, 121, 32, 99, 97, 114, 101, 32, 110, 111, 119, 46>>  \* ") and seek emergency care now."
    ELSE IF level = "YELLOW"
    THEN <<84, 97, 108, 107, 32, 116, 111, 32, 97, 32, 100, 111, 99, 116, 111, 114, 32, 119, 105, 116, 104, 105, 110, 32, 50, 52, 32, 104, 111, 117, 114, 115, 32, 97, 110, 100, 32, 100, 111, 32, 110, 111, 116, 32, 100, 101, 108, 97, 121, 32, 99, 97, 114, 101, 46>>  \* "Talk to a doctor within 24 hours and do not delay care."
    ELSE IF level = "GREEN"
    THEN <<83, 99, 104, 101, 100, 117, 108, 101, 32, 97, 32, 114, 111, 117, 116, 105, 110, 101, 32, 99, 111, 110, 115, 117, 108, 116, 97, 116, 105, 111, 110, 32, 119, 105, 116, 104, 32, 97, 32, 100, 111, 99, 116, 111, 114, 46>>  \* "Schedule a routine consultation with a doctor."
    ELSE <<85, 115, 101, 32, 98, 97, 115, 105, 99, 32, 115, 101, 108, 102, 45, 99, 97, 114, 101, 44, 32, 109, 111, 110, 105, 116, 111, 114, 32, 115, 121, 109, 112, 116, 111, 109, 115, 32, 99, 108, 111, 115, 101, 108, 121, 44, 32, 97, 110, 100, 32, 99, 111, 110, 115, 117, 108, 116, 32, 97, 32, 100, 111, 99, 116, 111, 114, 32, 105, 102, 32, 115, 121, 109, 112, 116, 111, 109, 115, 32, 119, 111, 114, 115, 101, 110, 46>>  \* "Use basic self-care, monitor symptoms closely, and consult a doctor if symptoms worsen."

\* row.key of an object: undefined for a key it does not have
Property(row, key) == IF key \in DOMAIN row THEN row[key] ELSE JUndefined

\* null, as normalizeSymptomTriage returns it
NormalizedNull == [null |-> TRUE]

\* a SymptomTriage, as normalizeSymptomTriage returns it
Normalized(triage) == [null |-> FALSE, triage |-> triage]

\* the SymptomTriage built from a current-shaped row
CurrentTriage(row, triageLevel) ==
    [summary |-> toNonEmptyString(Property(row, "summary"), DefaultSummary),
     triageLevel |-> triageLevel,
     explanation |-> toNonEmptyString(Property(row, "explanation"), DefaultExplanation),
     recommendedAction |-> toNonEmptyString(Property(row, "recommendedAction"),
                                            defaultRecommendedAction(triageLevel)),
     disclaimer |-> toNonEmptyString(Property(row, "disclaimer"), DEFAULT_DISCLAIMER)]

\* the SymptomTriage built from a legacy-shaped row
LegacyTriage(row, legacySeverity) ==
    With(LEGACY_SEVERITY_TO_LEVEL[legacySeverity], LAMBDA mappedLevel :
        [summary |-> toNonEmptyString(Property(row, "summary"), DefaultSummary),
         triageLevel |-> mappedLevel,
         explanation |-> toNonEmptyString(Property(row, "urgencyLabel"),
                                          DefaultLegacyExplanation),
         recommendedAction |-> defaultRecommendedAction(mappedLevel),
         disclaimer |-> toNonEmptyString(Property(row, "safetyNotice"), DEFAULT_DISCLAIMER)])

\* the properties of a value that passed the object test; an array has none of those read
RowOf(value) == IF value.t = "object" THEN value.f ELSE <<>>

\* the legacy shape tried before the current one (a mutation of normalizeSymptomTriage)
normalizeSymptomTriage_LegacyFirst(value) ==
    IF ~Truthy(value) \/ value.t \notin {"object", "array"} THEN NormalizedNull
    ELSE With(RowOf(value), LAMBDA row :
        With(parseLegacySeverity(Property(row, "severity")), LAMBDA legacySeverity :
            IF legacySeverity # "" THEN Normalized(LegacyTriage(row, legacySeverity))
            ELSE With(parseTriageLevel(Property(row, "triageLevel")), LAMBDA triageLevel :
                IF triageLevel = "" THEN NormalizedNull
                ELSE Normalized(CurrentTriage(row, triageLevel)))))

\* normalizeSymptomTriage: typeof is "object" for objects and arrays; null is falsy
normalizeSymptomTriage(value) ==
    IF ~Truthy(value) \/ value.t \notin {"object", "array"} THEN NormalizedNull
    ELSE With(RowOf(value), LAMBDA row :
        With(parseTriageLevel(Property(row, "triageLevel")), LAMBDA triageLevel :
            IF triageLevel # "" THEN Normalized(CurrentTriage(row, triageLevel))
            ELSE With(parseLegacySeverity(Property(row, "severity")), LAMBDA legacySeverity :
                IF legacySeverity = "" THEN NormalizedNull
                ELSE Normalized(LegacyTriage(row, legacySeverity)))))

\* the client normalizes one stored or received value
Normalize ==
    /\ pc = "idle"
    /\ route = "normalize"
    /\ ret' = [kind |-> "return", value |-> normalizeSymptomTriage(req.value)]
    /\ pc' = "done"
    /\ UNCHANGED <<roomVars, bookingVars, env, route, req, fallback, candidate, modelCalls, replies, audit, response,
                   trace>>

----------------------------------------------------------------------------
(* Web client: the values normalized                                       *)

\* triageLevel values: absent, the enum as written, in lower case and padded, a word
\* outside the enum, a number
LevelValues ==
    {JUndefined, JString(<<82, 69, 68>>), JString(<<71, 82, 69, 69, 78>>), JString(<<32, 121, 101, 108, 108, 111, 119, 32>>), JString(<<98, 108, 117, 101>>),  \* "RED", "GREEN", " yellow ", "blue"
     JString(<<80, 85, 82, 80, 76, 69>>), JNumber(1)}  \* "PURPLE"

\* severity values: absent, the four of the table, one in lower case and padded, a
\* word outside the table, null
SeverityValues ==
    {JUndefined, JString(<<76, 79, 87>>), JString(<<77, 69, 68, 73, 85, 77>>), JString(<<72, 73, 71, 72>>), JString(<<69, 77, 69, 82, 71, 69, 78, 67, 89>>),  \* "LOW", "MEDIUM", "HIGH", "EMERGENCY"
     JString(<<32, 101, 109, 101, 114, 103, 101, 110, 99, 121, 32>>), JString(<<67, 82, 73, 84, 73, 67, 65, 76>>), JNull}  \* " emergency ", "CRITICAL"

\* text values: absent, blank, padded text, a number
TextValues == {JUndefined, JString(<<32, 32>>), JString(<<32, 82, 101, 115, 116, 32, 97, 110, 100, 32, 102, 108, 117, 105, 100, 115, 46, 32>>), JNumber(0)}  \* "  ", " Rest and fluids. "

\* the objects normalized: any level and severity, any summary, and one text shared by
\* the two explanation keys and one by the two disclaimer keys
RowValues ==
    {JObject([triageLevel |-> level, severity |-> severity, summary |-> summary,
              explanation |-> text, urgencyLabel |-> text, recommendedAction |-> action,
              disclaimer |-> notice, safetyNotice |-> notice]) :
        level \in LevelValues, severity \in SeverityValues, summary \in TextValues,
        text \in {JUndefined, JString(<<77, 111, 100, 101, 114, 97, 116, 101>>)}, action \in {JUndefined, JString(<<>>)},  \* "Moderate", ""
        notice \in {JUndefined, JString(<<83, 101, 101, 32, 97, 32, 100, 111, 99, 116, 111, 114, 46>>)}}  \* "See a doctor."

\* every value normalized: the objects, an object with no property, and values that are
\* no object
NormalizeValues ==
    RowValues \cup {JObject(<<>>), JArray(<<>>), JNull, JString(<<82, 69, 68>>), JNumber(0), JNumber(1)}  \* "RED"

----------------------------------------------------------------------------
(* Web client: the claims                                                  *)

\* the value is a string that reads as the word once trimmed and put in upper case
Spells(value, word) == value.t = "string" /\ toUpperCase(trim(value.s)) = word

\* the property of the normalized value
InputProperty(key) == Property(RowOf(req.value), key)

\* the normalized value is an object whose triageLevel is of the enum
HasValidLevel ==
    /\ req.value.t = "object"
    /\ \E l \in {"RED", "YELLOW", "GREEN", "BLUE"} : Spells(InputProperty("triageLevel"), LevelText[l])

\* the normalized value is an object whose severity is of the legacy table
HasValidSeverity ==
    /\ req.value.t = "object"
    /\ \E v \in {"LOW", "MEDIUM", "HIGH", "EMERGENCY"} : Spells(InputProperty("severity"), SeverityText[v])

\* normalizeSymptomTriage has returned
NormalizeDone == route = "normalize" /\ pc = "done"

\* C16: a legacy-shaped value is mapped through the table LOW->BLUE, MEDIUM->GREEN,
\* HIGH->YELLOW, EMERGENCY->RED, and every result that is not null, of either shape, has
\* a non-empty summary, explanation, recommendedAction and disclaimer, also when the
\* value carries none of them.
C16_LegacyTableAndTexts ==
    NormalizeDone
        => /\ \A pair \in {<<"LOW", "BLUE">>, <<"MEDIUM", "GREEN">>, <<"HIGH", "YELLOW">>,
                           <<"EMERGENCY", "RED">>} :
                  (~HasValidLevel /\ req.value.t = "object"
                        /\ Spells(InputProperty("severity"), SeverityText[pair[1]]))
                     => (~ret.value.null /\ ret.value.triage.triageLevel = pair[2])
           /\ ~ret.value.null
                => \A key \in {"summary", "explanation", "recommendedAction", "disclaimer"} :
                       Len(trim(ret.value.triage[key])) > 0

\* C16 witness: an object with the severity EMERGENCY and no text of its own came out
\* RED with the default disclaimer
C16_Witness ==
    /\ NormalizeDone
    /\ InputProperty("triageLevel") = JUndefined
    /\ InputProperty("severity") = JString(SeverityText["EMERGENCY"])
    /\ InputProperty("summary") = JUndefined
    /\ InputProperty("safetyNotice") = JUndefined
    /\ ~ret.value.null
    /\ ret.value.triage.triageLevel = "RED"
    /\ ret.value.triage.disclaimer = DEFAULT_DISCLAIMER

\* C17: the current shape is tried first and the legacy shape only when triageLevel is
\* not of the enum: a value with a valid triageLevel is normalized by it, whatever its
\* severity; a value with no valid triageLevel and a valid severity is normalized by the
\* severity table; a value that is no object, or has neither, gives null.
C17_CurrentShapeFirst ==
    NormalizeDone
        => /\ HasValidLevel
                => /\ ~ret.value.null
                   /\ Spells(InputProperty("triageLevel"), LevelText[ret.value.triage.triageLevel])
           /\ (~HasValidLevel /\ HasValidSeverity)
                => /\ ~ret.value.null
                   /\ \E v \in {"LOW", "MEDIUM", "HIGH", "EMERGENCY"} :
                         /\ Spells(InputProperty("severity"), SeverityText[v])
                         /\ ret.value.triage.triageLevel = LEGACY_SEVERITY_TO_LEVEL[v]
           /\ (~HasValidLevel /\ ~HasValidSeverity) => ret.value.null

\* C17 witness: a value with the triageLevel " yellow " and the severity LOW came out
\* YELLOW
C17_Witness ==
    /\ NormalizeDone
    /\ InputProperty("triageLevel").t = "string"
    /\ HasValidLevel
    /\ InputProperty("severity") = JString(SeverityText["LOW"])
    /\ ~ret.value.null
    /\ ret.value.triage.triageLevel = "YELLOW"

----------------------------------------------------------------------------
(* Prescription simplifier: the extractor run twice                        *)

\* most requests served between the two runs
MaxOther == 2

\* the inputs of the extractor: parsed bodies, the language one of the enum
ExtractInputs ==
    {[valid |-> TRUE, text |-> text, language |-> language] :
        text \in SimplifyExamples, language \in prescriptionLanguageSchema}

\* fallbackPrescriptionSummary runs on a first input
ExtractFirst(input) ==
    /\ pc = "idle"
    /\ route' = "extract"
    /\ req' = input
    /\ fallback' = fallbackPrescriptionSummary(input)
    /\ pc' = "between"
    /\ UNCHANGED <<roomVars, bookingVars, env, candidate, modelCalls, replies, ret, audit, response, trace>>

\* another request is served in between: it calls the model and writes its audit row
OtherRequest ==
    /\ pc = "between"
    /\ route = "extract"
    /\ modelCalls < MaxOther
    /\ modelCalls' = modelCalls + 1
    /\ audit' = Append(audit, SimplifyAuditRow(fallback))
    /\ UNCHANGED <<roomVars, bookingVars, env, route, pc, req, fallback, candidate, replies, ret, response, trace>>

\* fallbackPrescriptionSummary runs on a second input
ExtractSecond(input) ==
    /\ pc = "between"
    /\ route = "extract"
    /\ ret' = [kind |-> "return", source |-> "fallback", input |-> input,
               value |-> fallbackPrescriptionSummary(input)]
    /\ pc' = "done"
    /\ UNCHANGED <<roomVars, bookingVars, env, route, req, fallback, candidate, modelCalls, replies, audit, response,
                   trace>>

----------------------------------------------------------------------------
(* Triage: the stages of a run                                             *)

\* the stages of a triage run in their order
TriageStages == <<"Sanitize", "EmergencyGate", "SafetyGate", "Model", "Validate", "Result">>

\* the place of a stage in the order
StageIndex(stage) == CHOOSE i \in 1..Len(TriageStages) : TriageStages[i] = stage

\* the stages passed so far are passed in the order, none of them twice
InStageOrder(stages) ==
    \A i \in 1..Len(stages) :
        /\ stages[i] \in Range(TriageStages)
        /\ i > 1 => StageIndex(stages[i - 1]) < StageIndex(stages[i])

\* the stages a run has passed when it ended in the given terminal state
TerminalTraces(terminal) ==
    CASE terminal = "RuleBasedRed" -> {<<"Sanitize", "EmergencyGate", "Result">>}
      [] terminal = "RuleBasedSafetyRefusal" ->
            {<<"Sanitize", "EmergencyGate", "SafetyGate", "Result">>}
      [] terminal = "ModelValidated" -> {TriageStages}
      [] terminal = "Failed" -> {SubSeq(TriageStages, 1, n) : n \in 3..5}
      [] OTHER -> {}

\* C22: a triage run passes its stages in the order Sanitize, EmergencyGate, SafetyGate,
\* Model, Validate, Result: the gates decide on the sanitized text, the model is called
\* only after both gates found nothing, only an answer of the model is validated, and the
\* run ends in one of RuleBasedRed, RuleBasedSafetyRefusal, ModelValidated and Failed
\* with no stage passed after a short-circuit.
C22_StagesInStrictOrder ==
    TriageRan
        => /\ InStageOrder(trace)
           /\ trace[1] = "Sanitize"
           /\ (EmergencyPhraseInRequest \/ SafetyPhraseInRequest)
                => ("Model" \notin Range(trace) /\ modelCalls = 0)
           /\ "Model" \in Range(trace)
                => /\ SubSeq(trace, 1, 4) = SubSeq(TriageStages, 1, 4)
                   /\ ~EmergencyGateMatched
                   /\ ~SafetyGateMatched
                   /\ modelCalls = 1
           /\ "Validate" \in Range(trace)
                => /\ Len(replies) = 1
                   /\ replies[1].kind = "text"
                   /\ SubSeq(trace, 1, 5) = SubSeq(TriageStages, 1, 5)
           /\ pc \in {"audit", "alert", "done"}
                => /\ ret.kind \in {"return", "throw"}
                   /\ trace \in TerminalTraces(ret.terminal)
                   /\ (ret.kind = "throw") = (ret.terminal = "Failed")
           /\ pc = "fetch" => (ret = NoReturn /\ "Result" \notin Range(trace))

\* C22 witness: a run whose gates found nothing in a text with a tab and a line feed
\* passed all six stages and ended in ModelValidated
C22_Witness ==
    /\ TriageRan
    /\ pc = "done"
    /\ req.symptoms # sanitizeTriageText(req.symptoms)
    /\ ret.kind = "return"
    /\ ret.terminal = "ModelValidated"
    /\ trace = TriageStages
    /\ response.status = 200
----------------------------------------------------------------------------
(* Simplify: the alignment check counted character by character            *)

\* the number of code units of the narrative in the script block of the language
ScriptCharacters(narrative, language) ==
    Cardinality({i \in 1..Len(narrative) : InScript(narrative[i], language)})

\* the rule on the counts of all characters: at least one character of the script, and
\* the Latin letters at most 1.2 times the characters of the script (compared in fifths)
AlignedByCounts(summary, language) ==
    \/ language = "en"
    \/ \E narrative \in {prescriptionNarrativeText(summary)} :
           /\ ScriptCharacters(narrative, language) >= 1
           /\ 5 * LatinCount(narrative) <= 6 * ScriptCharacters(narrative, language)

\* the schema-valid summary of the first reply, when there is one
FirstSummaries ==
    IF route = "simplify" /\ req.valid /\ Len(replies) >= 1
    THEN {first.summary : first \in {m \in {ModelSummary(requestGeminiJson(replies[1]), req.language)} : m.valid}}
    ELSE {}

\* C23: the alignment check passes a summary for a hi, ta or bn target exactly when its
\* narrative fields hold at least one character of the target script and the number of
\* their Latin letters is at most 1.2 times the number of their characters of the
\* script, every character counted; for en it passes always.
C23_AlignmentCountsEveryCharacter ==
    \A summary \in FirstSummaries :
        isPrescriptionLanguageAligned(summary, req.language)
            <=> AlignedByCounts(summary, req.language)
----------------------------------------------------------------------------
(* Simplify: the language of the deterministic summary                     *)

\* the instruction phrases of the phrase table of the language
TableInstructions(language) ==
    {prescriptionFallbackByLanguage[language].takeAfterFood,
     prescriptionFallbackByLanguage[language].takeBeforeFood}

\* C24: every instruction of the deterministic summary is a phrase of the phrase table
\* of the requested language, and for a hi, ta or bn request the deterministic summary
\* passes the language-alignment check, for every input text.
C24_FallbackLocalized ==
    (route = "simplify" /\ fallback # NoRequest)
        => /\ \A m \in 1..Len(fallback.medicines) :
                 \A k \in 1..Len(fallback.medicines[m].instructions) :
                     fallback.medicines[m].instructions[k] \in TableInstructions(req.language)
           /\ isPrescriptionLanguageAligned(fallback, req.language)
----------------------------------------------------------------------------
(* Triage: JSON wrapped in prose                                           *)

\* the first balanced "{...}" block of a text: its first segment in braces
FirstBalancedBlock(segs) ==
    LET b == {i \in 1..Len(segs) : HasBraces(segs[i])}
    IN  IF b = {} THEN [matched |-> FALSE]
        ELSE [matched |-> TRUE, text |-> <<segs[MinOf(b)]>>]

\* the reply of the model is text that is not JSON as a whole, and the first balanced
\* block of the text is an object that meets the triage result schema
ProseAroundValidObject(outcome) ==
    /\ outcome.kind = "text"
    /\ ~JSONparse(outcome.text).ok
    /\ \E block \in {FirstBalancedBlock(TrimSegs(outcome.text))} :
           /\ block.matched
           /\ JSONparse(block.text).ok
           /\ symptomCheckResponseSchema(JSONparse(block.text).v).success

\* the triage result inside the first balanced block of the reply
ObjectInProse(outcome) ==
    symptomCheckResponseSchema(JSONparse(FirstBalancedBlock(TrimSegs(outcome.text)).text).v).data

\* C25: when the text of the model is not itself JSON, the first balanced {...} block
\* of the text is parsed: a reply made of prose around a valid result object, also with
\* prose holding further braces after the object, yields that object as the result of
\* the run.
C25_FirstBalancedBlockParsed ==
    (TriageRan /\ Len(replies) = 1 /\ ProseAroundValidObject(replies[1]))
        => (ret.kind = "return" /\ ret.value = ObjectInProse(replies[1]))
----------------------------------------------------------------------------
(* Simplify: timing slots from frequency idioms                            *)

\* the text the extractor reads the timing from: sanitized and in lower case
TimingText == toLowerCase(sanitizeTriageText(req.text))

\* the text holds an as-needed phrase
SaysAsNeeded(t) == AnyWord(t, { <<97, 115, 32, 110, 101, 101, 100, 101, 100>>, <<119, 104, 101, 110, 32, 110, 101, 101, 100, 101, 100>>, <<115, 111, 115>> })  \* "as needed", "when needed", "sos"

\* the text holds an after-food phrase
SaysAfterFood(t) == AnyWord(t, { <<97, 102, 116, 101, 114, 32, 102, 111, 111, 100>>, <<97, 102, 116, 101, 114, 32, 109, 101, 97, 108>>, <<97, 102, 116, 101, 114, 32, 109, 101, 97, 108, 115>>, <<112, 111, 115, 116, 32, 109, 101, 97, 108>> })  \* "after food", "after meal", "after meals", "post meal"

\* the text holds a before-food phrase
SaysBeforeFood(t) == AnyWord(t, { <<98, 101, 102, 111, 114, 101, 32, 102, 111, 111, 100>>, <<98, 101, 102, 111, 114, 101, 32, 109, 101, 97, 108>>, <<98, 101, 102, 111, 114, 101, 32, 109, 101, 97, 108, 115>>, <<101, 109, 112, 116, 121, 32, 115, 116, 111, 109, 97, 99, 104>> })  \* "before food", "before meal", "before meals", "empty stomach"

\* the text holds a bedtime phrase
SaysBedtime(t) == AnyWord(t, { <<98, 101, 102, 111, 114, 101, 32, 98, 101, 100>>, <<98, 101, 100, 116, 105, 109, 101>> })  \* "before bed", "bedtime"

\* the day-parts the text names
DayPartsNamed(t) ==
    (IF AnyWord(t, { <<109, 111, 114, 110, 105, 110, 103>> }) THEN <<"MORNING">> ELSE <<>>)  \* "morning"
    \o (IF AnyWord(t, { <<97, 102, 116, 101, 114, 110, 111, 111, 110>>, <<110, 111, 111, 110>> }) THEN <<"AFTERNOON">> ELSE <<>>)  \* "afternoon", "noon"
    \o (IF AnyWord(t, { <<110, 105, 103, 104, 116>>, <<101, 118, 101, 110, 105, 110, 103>> }) THEN <<"NIGHT">> ELSE <<>>)  \* "night", "evening"

\* the frequency idioms of the text: how many times a day each of them says
FrequenciesSaid(t) ==
    (IF AnyWord(t, { <<111, 110, 99, 101, 32, 100, 97, 105, 108, 121>>, <<111, 110, 99, 101, 32, 97, 32, 100, 97, 121>>, <<111, 100>> }) THEN {1} ELSE {})  \* "once daily", "once a day", "od"
    \cup (IF AnyWord(t, { <<116, 119, 105, 99, 101, 32, 100, 97, 105, 108, 121>>, <<116, 119, 111, 32, 116, 105, 109, 101, 115, 32, 100, 97, 105, 108, 121>>, <<116, 119, 111, 32, 116, 105, 109, 101, 115, 32, 97, 32, 100, 97, 121>>, <<98, 105, 100>> }) THEN {2} ELSE {})  \* "twice daily", "two times daily", "two times a day", "bid"
    \cup (IF AnyWord(t, { <<116, 104, 114, 105, 99, 101, 32, 100, 97, 105, 108, 121>>, <<116, 104, 114, 101, 101, 32, 116, 105, 109, 101, 115, 32, 100, 97, 105, 108, 121>>, <<116, 104, 114, 101, 101, 32, 116, 105, 109, 101, 115, 32, 97, 32, 100, 97, 121>>, <<116, 105, 100>> }) THEN {3} ELSE {})  \* "thrice daily", "three times daily", "three times a day", "tid"

\* the day-parts a frequency of n times a day stands for
DayPartsOfFrequency(n) ==
    CASE n = 1 -> <<"MORNING">>
      [] n = 2 -> <<"MORNING", "NIGHT">>
      [] n = 3 -> <<"MORNING", "AFTERNOON", "NIGHT">>

\* the meal relation of every day-part slot of the text
MealSaid(t) == IF SaysBeforeFood(t) /\ ~SaysAfterFood(t) THEN "BEFORE_FOOD" ELSE "AFTER_FOOD"

\* the slots of the day-parts with the meal relation of the text, and BEDTIME after
\* them when the text holds a bedtime phrase
SlotsOfDayParts(parts, t) ==
    [i \in 1..Len(parts) |-> parts[i] \o "_" \o MealSaid(t)]
        \o (IF SaysBedtime(t) THEN <<"BEDTIME">> ELSE <<>>)

\* the extractor has just run on the text of the request
JustExtracted == route = "simplify" /\ fallback # NoRequest /\ replies = <<>>

\* C26: an as-needed phrase gives exactly [AS_NEEDED] whatever else the text says;
\* otherwise a text that names no day-part gets MORNING for once daily / OD, MORNING
\* and NIGHT for twice daily / BID, and MORNING, AFTERNOON and NIGHT for thrice daily /
\* TID; every day-part, named or derived, is BEFORE_FOOD only when a before-food phrase
\* is present and no after-food phrase is, and AFTER_FOOD otherwise; and a bedtime
\* phrase adds BEDTIME.
C26_SlotsFromFrequencyIdioms ==
    JustExtracted
        => \E t \in {TimingText}, slots \in {fallback.medicines[1].timingSlots} :
              /\ SaysAsNeeded(t) => slots = <<"AS_NEEDED">>
              /\ (~SaysAsNeeded(t) /\ DayPartsNamed(t) # <<>>)
                    => slots = SlotsOfDayParts(DayPartsNamed(t), t)
              /\ (~SaysAsNeeded(t) /\ DayPartsNamed(t) = <<>>)
                    => \A n \in FrequenciesSaid(t) :
                          FrequenciesSaid(t) = {n}
                              => slots = SlotsOfDayParts(DayPartsOfFrequency(n), t)
              /\ (~SaysAsNeeded(t) /\ SaysBedtime(t)) => slots[Len(slots)] = "BEDTIME"

\* the slots of the request are the given ones, derived from a frequency idiom
SlotsFromIdiom(n, slots) ==
    /\ JustExtracted
    /\ ~SaysAsNeeded(TimingText)
    /\ DayPartsNamed(TimingText) = <<>>
    /\ FrequenciesSaid(TimingText) = {n}
    /\ fallback.medicines[1].timingSlots = slots

\* C26 witness: a text with TID, no day-part, a before-food and an after-food phrase
\* got the three day-parts, each AFTER_FOOD
C26_Witness ==
    /\ SlotsFromIdiom(3, <<"MORNING_AFTER_FOOD", "AFTERNOON_AFTER_FOOD", "NIGHT_AFTER_FOOD">>)
    /\ SaysBeforeFood(TimingText)
    /\ SaysAfterFood(TimingText)
----------------------------------------------------------------------------
(* Simplify: the empty-stomach warning and the timing slots                *)

\* the timing slots that place a dose before food
BeforeFoodSlots == {"MORNING_BEFORE_FOOD", "AFTERNOON_BEFORE_FOOD", "NIGHT_BEFORE_FOOD"}

\* C30: the deterministic summary never holds the warning against taking the medicine
\* on an empty stomach (warningEmptyStomach) together with a BEFORE_FOOD timing slot of
\* the medicine.
C30_NoFoodContradiction ==
    JustExtracted
        => ~ /\ prescriptionFallbackByLanguage[req.language].warningEmptyStomach
                    \in Range(fallback.warnings)
             /\ \E m \in 1..Len(fallback.medicines) :
                    Range(fallback.medicines[m].timingSlots) \cap BeforeFoodSlots # {}
----------------------------------------------------------------------------
(* Triage: a rule-based result and the audit write                         *)

\* C27: a valid triage request that matches the emergency gate is answered with the
\* RED result in every execution, also when a write of the audit log fails.
C27_RedDeliveredDespiteAudit ==
    (TriageRan /\ pc = "done" /\ EmergencyGateMatched)
        => (response.status = 200 /\ response.triage = ret.value
            /\ response.triage.triageLevel = "RED")
----------------------------------------------------------------------------
(* The consultation call room of the web client                            *)
(* (apps/web/src/app/dashboard/call/[roomId]/page.tsx)                     *)

LATENCY_RTT_THRESHOLD_MS == 500
LATENCY_CONSECUTIVE_SLOW_LIMIT == 2
LATENCY_PROBE_TIMEOUT_MS == 4500

\* most probes settled and buttons pressed in one visit of the room
MaxEvents == 4

\* type CallMode
CallMode == {"video", "audio"}

\* the React state latency: null, or the round trip of the last probe
LatencyNull == [null |-> TRUE]
LatencyOf(rtt) == [null |-> FALSE, ms |-> rtt]

\* the round trips of a probe that was answered: at the threshold, one above it, and
\* one below the timeout that aborts the probe
RoundTrips ==
    {LATENCY_RTT_THRESHOLD_MS, LATENCY_RTT_THRESHOLD_MS + 1, LATENCY_PROBE_TIMEOUT_MS - 1}

\* how the fetch of a probe settles: answered ok after rtt milliseconds, answered with
\* a status that is not ok, rejected by the network, or aborted by the timeout
ProbeOutcomes ==
    {[kind |-> "ok", rtt |-> rtt] : rtt \in RoundTrips}
    \cup {[kind |-> "status", rtt |-> 0], [kind |-> "reject", rtt |-> 0],
          [kind |-> "abort", rtt |-> LATENCY_PROBE_TIMEOUT_MS]}

\* the page as it is mounted
CallRoomPage ==
    /\ mode = "video"
    /\ modeRef = "video"
    /\ consecutiveSlowChecksRef = 0
    /\ probeInFlightRef = FALSE
    /\ latency = LatencyNull
    /\ cancelled = FALSE
    /\ events = <<>>

\* what is kept of a probe that settled or of a button that was pressed: what happened,
\* and the mode and the counter after it
Event(event, outcome) ==
    [event |-> event, outcome |-> outcome, mode |-> mode', slow |-> consecutiveSlowChecksRef']

\* runLatencyProbe up to its await, on mount and on every tick of the interval; a tick
\* that finds a probe in flight returns at once
runLatencyProbe ==
    /\ ~cancelled
    /\ ~probeInFlightRef
    /\ probeInFlightRef' = TRUE
    /\ UNCHANGED <<serverVars, bookingVars, mode, modeRef, consecutiveSlowChecksRef, latency,
                   cancelled, events>>

\* the rest of runLatencyProbe with a failed probe leaving the counter as it is (a
\* mutation of ProbeSettled)
ProbeSettled_KeepOnFailure(outcome) ==
    /\ probeInFlightRef
    /\ ~cancelled
    /\ Len(events) < MaxEvents
    /\ IF outcome.kind = "ok"
       THEN /\ latency' = LatencyOf(outcome.rtt)
            /\ consecutiveSlowChecksRef' =
                  IF outcome.rtt > LATENCY_RTT_THRESHOLD_MS
                  THEN consecutiveSlowChecksRef + 1 ELSE 0
            /\ \E shouldDowngrade \in
                    {consecutiveSlowChecksRef' >= LATENCY_CONSECUTIVE_SLOW_LIMIT
                        /\ modeRef # "audio"} :
                   /\ modeRef' = IF shouldDowngrade THEN "audio" ELSE modeRef
                   /\ mode' = IF shouldDowngrade THEN "audio" ELSE mode
       ELSE /\ latency' = LatencyNull
            /\ UNCHANGED <<consecutiveSlowChecksRef, mode, modeRef>>
    /\ probeInFlightRef' = FALSE
    /\ events' = Append(events, Event("probe", outcome))
    /\ UNCHANGED <<serverVars, bookingVars, cancelled>>

\* the rest of runLatencyProbe, from the settled fetch on: the try block for an ok
\* answer, the catch block for any other, and the finally block
ProbeSettled(outcome) ==
    /\ probeInFlightRef
    /\ ~cancelled
    /\ Len(events) < MaxEvents
    /\ IF outcome.kind = "ok"
       THEN /\ latency' = LatencyOf(outcome.rtt)
            /\ consecutiveSlowChecksRef' =
                  IF outcome.rtt > LATENCY_RTT_THRESHOLD_MS
                  THEN consecutiveSlowChecksRef + 1 ELSE 0
            /\ \E shouldDowngrade \in
                    {consecutiveSlowChecksRef' >= LATENCY_CONSECUTIVE_SLOW_LIMIT
                        /\ modeRef # "audio"} :
                   /\ modeRef' = IF shouldDowngrade THEN "audio" ELSE modeRef
                   /\ mode' = IF shouldDowngrade THEN "audio" ELSE mode
       ELSE /\ latency' = LatencyNull
            /\ consecutiveSlowChecksRef' = 0
            /\ UNCHANGED <<mode, modeRef>>
    /\ probeInFlightRef' = FALSE
    /\ events' = Append(events, Event("probe", outcome))
    /\ UNCHANGED <<serverVars, bookingVars, cancelled>>

\* setManualMode: the Video Mode and Audio Mode buttons
setManualMode(nextMode) ==
    /\ ~cancelled
    /\ Len(events) < MaxEvents
    /\ consecutiveSlowChecksRef' = 0
    /\ modeRef' = nextMode
    /\ mode' = nextMode
    /\ events' = Append(events, Event("manual", [kind |-> nextMode, rtt |-> 0]))
    /\ UNCHANGED <<serverVars, bookingVars, probeInFlightRef, latency, cancelled>>

\* the cleanup of the effect when the page is left: the interval is cleared and a probe
\* in flight is aborted, whose catch block returns at once
Unmount ==
    /\ ~cancelled
    /\ cancelled' = TRUE
    /\ probeInFlightRef' = FALSE
    /\ UNCHANGED <<serverVars, bookingVars, mode, modeRef, consecutiveSlowChecksRef, latency,
                   events>>

\* the event is a probe that was answered ok above the threshold
SlowProbe(e) ==
    e.event = "probe" /\ e.outcome.kind = "ok" /\ e.outcome.rtt > LATENCY_RTT_THRESHOLD_MS

\* the mode and the counter before the i-th event
ModeBefore(i) == IF i = 1 THEN "video" ELSE events[i - 1].mode
SlowBefore(i) == IF i = 1 THEN 0 ELSE events[i - 1].slow

----------------------------------------------------------------------------
(* PATCH /appointments/:appointmentId/status                               *)

\* most status updates in flight at once
MaxPatches == 2

\* the status-update requests
Patches == 1..MaxPatches

\* the appointment rows: two of one doctor, one of another
AppointmentRows ==
    [a1 |-> [doctorId |-> "d1", doctorUser |-> "u-d1", patientUser |-> "u-p1"],
     a2 |-> [doctorId |-> "d1", doctorUser |-> "u-d1", patientUser |-> "u-p2"],
     a3 |-> [doctorId |-> "d2", doctorUser |-> "u-d2", patientUser |-> "u-p1"]]

\* the ids of the rows, and the ids a request may name: those and one of no row
AppointmentIds == DOMAIN AppointmentRows
PatchIds == AppointmentIds \cup {"a9"}

\* the status values of the enum, and the ones a request may carry: two of the enum
\* and one outside it
AppointmentStatus == {"BOOKED", "IN_PROGRESS", "COMPLETED", "CANCELLED", "NO_SHOW"}
PatchStatuses == {"IN_PROGRESS", "COMPLETED", "LIVE"}

\* who sends the requests: the first doctor and the first patient
PatchActors == {"u-d1", "u-p1"}

\* a request slot that holds no request
NoPatch == [pc |-> "idle", appointmentId |-> "", status |-> "", actor |-> "", response |-> 0]

\* every appointment is booked and no request is in flight
AppointmentsBooked ==
    /\ appointment = [id \in AppointmentIds |-> "BOOKED"]
    /\ patch = [r \in Patches |-> NoPatch]

\* the request r ends with the given HTTP status
PatchEnds(r, status) ==
    patch' = [patch EXCEPT ![r].pc = "done", ![r].response = status]

\* the request r goes on to its next await
PatchGoes(r, next) == patch' = [patch EXCEPT ![r].pc = next]

\* the handler up to findUnique: the status of the query is parsed
PatchReceive(r, actor, id, status) ==
    /\ patch[r].pc = "idle"
    /\ IF status \notin AppointmentStatus
       THEN patch' = [patch EXCEPT ![r] = [pc |-> "done", appointmentId |-> id,
                                           status |-> status, actor |-> actor,
                                           response |-> 400]]
       ELSE patch' = [patch EXCEPT ![r] = [pc |-> "findUnique", appointmentId |-> id,
                                           status |-> status, actor |-> actor,
                                           response |-> 0]]
    /\ UNCHANGED <<serverVars, roomVars, appointment>>

\* findUnique settles: 404 for no row, 403 for an actor who is neither the doctor nor
\* the patient of the row or who is not the doctor and asks for IN_PROGRESS, COMPLETED
\* or NO_SHOW; a start goes on to findFirst, any other status to update
PatchFound(r) ==
    /\ patch[r].pc = "findUnique"
    /\ IF patch[r].appointmentId \notin AppointmentIds THEN PatchEnds(r, 404)
       ELSE \E row \in {AppointmentRows[patch[r].appointmentId]} :
            \E isDoctorOwner \in {row.doctorUser = patch[r].actor},
               isPatientOwner \in {row.patientUser = patch[r].actor} :
               IF ~isDoctorOwner /\ ~isPatientOwner THEN PatchEnds(r, 403)
               ELSE IF patch[r].status \in {"IN_PROGRESS", "COMPLETED", "NO_SHOW"}
                       /\ ~isDoctorOwner
               THEN PatchEnds(r, 403)
               ELSE IF patch[r].status = "IN_PROGRESS" THEN PatchGoes(r, "findFirst")
               ELSE PatchGoes(r, "update")
    /\ UNCHANGED <<serverVars, roomVars, appointment>>

\* findFirst settles: 409 when another appointment of the doctor is IN_PROGRESS
PatchActiveChecked(r) ==
    /\ patch[r].pc = "findFirst"
    /\ \E activeAppointment \in
            {\E id \in AppointmentIds :
                /\ AppointmentRows[id].doctorId
                      = AppointmentRows[patch[r].appointmentId].doctorId
                /\ appointment[id] = "IN_PROGRESS"
                /\ id # patch[r].appointmentId} :
           IF activeAppointment THEN PatchEnds(r, 409) ELSE PatchGoes(r, "update")
    /\ UNCHANGED <<serverVars, roomVars, appointment>>

\* prisma.appointment.update settles: the row carries the new status
PatchUpdated(r) ==
    /\ patch[r].pc = "update"
    /\ appointment' = [appointment EXCEPT ![patch[r].appointmentId] = patch[r].status]
    /\ PatchGoes(r, "audit")
    /\ UNCHANGED <<serverVars, roomVars>>

\* createAuditLog settles and the updated row is answered; a rejected write is not
\* caught by the handler and the framework answers 500
PatchAudited(r, written) ==
    /\ patch[r].pc = "audit"
    /\ PatchEnds(r, IF written THEN 200 ELSE 500)
    /\ UNCHANGED <<serverVars, roomVars, appointment>>

\* the appointments of the doctor that are IN_PROGRESS
LiveAppointments(doctorId) ==
    {id \in AppointmentIds :
        AppointmentRows[id].doctorId = doctorId /\ appointment[id] = "IN_PROGRESS"}

\* C29: at every moment a doctor has at most one appointment IN_PROGRESS, under any
\* interleaving of the status-update requests for appointments of that doctor.
C29_OneLiveAppointment ==
    \A id \in AppointmentIds :
        Cardinality(LiveAppointments(AppointmentRows[id].doctorId)) <= 1
\* the server is up; the API key is configured or not
Init ==
    /\ env \in {[GEMINI_API_KEY |-> k] : k \in BOOLEAN}
    /\ route = "none"
    /\ pc = "idle"
    /\ req = NoRequest
    /\ fallback = NoRequest
    /\ candidate = NoRequest
    /\ modelCalls = 0
    /\ replies = <<>>
    /\ ret = NoReturn
    /\ audit = <<>>
    /\ response = NoResponse
    /\ trace = <<>>
    /\ CallRoomPage
    /\ AppointmentsBooked

\* one symptom-checker request
NextTriage ==
    \/ \E actor \in Actors, body \in TriageBodies : TriageReceive(actor, body)
    \/ TriageRun
    \/ \E outcome \in TriageReplies : TriageFetched(outcome)
    \/ \E written \in BOOLEAN : TriageAudit(written)
    \/ \E written \in BOOLEAN : TriageAlert(written)

\* the symptom-checker handler from a fresh server
SpecTriage == Init /\ [][NextTriage]_vars

\* one prescription-simplify request
NextSimplify ==
    \/ \E actor \in Actors, body \in SimplifyBodies : SimplifyReceive(actor, body)
    \/ SimplifyRun
    \/ \E outcome \in SimplifyReplies : SimplifyFetched(outcome)
    \/ \E outcome \in SimplifyReplies : SimplifyRetried(outcome)
    \/ \E written \in BOOLEAN : SimplifyAudit(written)

\* the prescription-simplify handler from a fresh server
SpecSimplify == Init /\ [][NextSimplify]_vars

\* one request to either handler
NextRequests == NextTriage \/ NextSimplify

\* both handlers from a fresh server
SpecRequests == Init /\ [][NextRequests]_vars

\* the web client holds one value to normalize; the server state is untouched
InitNormalize ==
    /\ env = [GEMINI_API_KEY |-> FALSE]
    /\ route = "normalize"
    /\ pc = "idle"
    /\ req \in {[valid |-> TRUE, value |-> v] : v \in NormalizeValues}
    /\ fallback = NoRequest
    /\ candidate = NoRequest
    /\ modelCalls = 0
    /\ replies = <<>>
    /\ ret = NoReturn
    /\ audit = <<>>
    /\ response = NoResponse
    /\ trace = <<>>
    /\ CallRoomPage
    /\ AppointmentsBooked

\* one call of normalizeSymptomTriage
NextNormalize == Normalize

\* normalizeSymptomTriage applied to every value
SpecNormalize == InitNormalize /\ [][NextNormalize]_vars

\* two runs of the extractor with other requests in between
NextExtract ==
    \/ \E input \in ExtractInputs : ExtractFirst(input)
    \/ OtherRequest
    \/ \E input \in ExtractInputs : ExtractSecond(input)

\* the extractor run twice from a fresh server
SpecExtract == Init /\ [][NextExtract]_vars

\* the call room: probes start and settle, the buttons are pressed, the page is left
NextCallRoom ==
    \/ runLatencyProbe
    \/ \E outcome \in ProbeOutcomes : ProbeSettled(outcome)
    \/ \E nextMode \in CallMode : setManualMode(nextMode)
    \/ Unmount

\* the call room from its mount
SpecCallRoom == Init /\ [][NextCallRoom]_vars

\* status updates of appointments, their awaits interleaved
NextAppointments ==
    \/ \E r \in Patches, actor \in PatchActors, id \in PatchIds, status \in PatchStatuses :
          PatchReceive(r, actor, id, status)
    \/ \E r \in Patches : PatchFound(r)
    \/ \E r \in Patches : PatchActiveChecked(r)
    \/ \E r \in Patches : PatchUpdated(r)
    \/ \E r \in Patches, written \in BOOLEAN : PatchAudited(r, written)

\* the appointment status handler from a table of booked appointments
SpecAppointments == Init /\ [][NextAppointments]_vars

\* both handlers with the steps of the server taken in the end; the answer of the
\* external model is not the server's to take, and no fetch carries an AbortSignal
SpecRequestsLive ==
    /\ Init
    /\ [][NextRequests]_vars
    /\ WF_vars(TriageRun)
    /\ WF_vars(SimplifyRun)
    /\ WF_vars(\E written \in BOOLEAN : TriageAudit(written))
    /\ WF_vars(\E written \in BOOLEAN : TriageAlert(written))
    /\ WF_vars(\E written \in BOOLEAN : SimplifyAudit(written))

====
